---- MODULE Spec2Model ----
(***************************************************************************)
(* Marketplace coordination engine of ankit2000a/ai-marketplace.           *)
(*                                                                         *)
(* Escrow Ledger (src/escrow_manager.py, class EscrowManager) and          *)
(* Directory, Reputation Ledger and Transaction Journal (src/registry.py). *)
(*                                                                         *)
(* Money is a Decimal in the source, built with Decimal(str(x)) from the   *)
(* request's number, and only ever added, subtracted and compared.  Those  *)
(* operations are exact on Decimals, so an amount is modelled as an        *)
(* integer number of hundredths (10.00 is 1000, 0.05 is 5).                *)
(***************************************************************************)
EXTENDS Integers, Sequences, FiniteSets, TLC

VARIABLES
    escrows,        \* self.escrows: job_id -> escrow record (a dict)
    agent_wallets,  \* self.agent_wallets: agent name -> balance (a dict)
    ledger,         \* history: per job id, what the wallets were debited (in all: debited,
                    \* by the latest create_escrow: lock) and credited (paid to sellers,
                    \* refunded to buyers) for it, and how many create_escrow calls succeeded
    call,           \* history: the latest call, its arguments and how it ended
    ncalls,         \* history: number of calls made so far
    agents,         \* table "agents": name -> AgentRecord row (name is unique)
    transactions,   \* table "transactions": the rows in id order (row i has id i)
    feedback,       \* table "feedback": the rows in id order
    rcall,          \* history: the latest registry request and its response
    inflight        \* requests being served at the same time: per slot the request,
                    \* how far its handler has come (pc) and how it ended

escrowVars == <<escrows, agent_wallets, ledger, call>>

registryVars == <<agents, transactions, feedback, rcall>>

vars == <<escrows, agent_wallets, ledger, call, ncalls, agents, transactions, feedback,
          rcall, inflight>>

----------------------------------------------------------------------------
(* Bounds and inputs *)

\* Number of calls in a run.
MaxCalls == 4

\* Decimal("10.00"), the demo seed of each project manager's wallet.
SeedBalance == 1000

JobIds == {"job1", "job2"}

\* The wallets seeded by __init__.
SeededAgents == {"PM_Budget", "PM_Quality", "PM_Balanced"}

\* Ids the callers pass: a seeded buyer and an agent that has no wallet yet.
AgentIds == {"PM_Budget", "ChartBot_Budget_v1"}

\* Prices the callers pass, in hundredths: a negative one, zero, 0.03, 0.05
\* and the whole seed.
Prices == {-2, 0, 3, 5, SeedBalance}

\* Requests that can be in flight at the same time.
Slots == {1, 2}

\* Python's None in the seller field.
None == "None"

\* Python's None in the actual_price field (a price p is <<p>>).
NoPrice == <<>>

Statuses == {"locked", "completed", "refunded", "rejected_overcharge"}

\* A slot with no request in it.
NoRequest == [op |-> "none", job |-> None, agent |-> None, amount |-> 0,
              pc |-> "done", result |-> "ok"]

----------------------------------------------------------------------------
(* Helpers *)

\* dict assignment d[k] = v
Put(d, k, v) == [x \in (DOMAIN d) \cup {k} |-> IF x = k THEN v ELSE d[x]]

RECURSIVE SumOver(_, _)
SumOver(f, S) ==
    IF S = {} THEN 0
    ELSE LET x == CHOOSE y \in S : TRUE IN f[x] + SumOver(f, S \ {x})

\* self.agent_wallets.get(agent_id, Decimal("0.00"))
Balance(w, agent_id) == IF agent_id \in DOMAIN w THEN w[agent_id] ELSE 0

\* float(d) of a Decimal d is the double nearest to d, and the caller reads
\* it back as the shortest decimal that names that double.  For a decimal of
\* at most 15 significant digits that is d itself; every amount of the model
\* is far below that, so the float is named by the hundredths it prints.
ToFloat(d) == d

\* A lookup that answers nothing for an agent without a wallet.
GetBalance_NoDefault(w, agent_id) ==
    IF agent_id \in DOMAIN w THEN ToFloat(w[agent_id]) ELSE -1

\* What get_balance returns on wallets w.
GetBalance(w, agent_id) == ToFloat(Balance(w, agent_id))

\* get_balance
get_balance(agent_id) == GetBalance(agent_wallets, agent_id)

----------------------------------------------------------------------------
(* create_escrow *)

\* A balance check that looks only at wallets that exist.
CreateResult_KnownOnly(w, buyer_id, max_price) ==
    IF buyer_id \notin DOMAIN w THEN "KeyError"
    ELSE IF w[buyer_id] < max_price THEN "InsufficientFundsError"
    ELSE "ok"

\* How create_escrow ends: the balance check raises InsufficientFundsError;
\* otherwise `self.agent_wallets[buyer_id] -= ...` raises KeyError for a
\* buyer with no wallet; otherwise it returns.
CreateResult(w, buyer_id, max_price) ==
    IF Balance(w, buyer_id) < max_price THEN "InsufficientFundsError"
    ELSE IF buyer_id \notin DOMAIN w THEN "KeyError"
    ELSE "ok"

\* A lock that credits instead of debiting.
CreateWallets_Credit(w, buyer_id, max_price) ==
    [w EXCEPT ![buyer_id] = @ + max_price]

\* self.agent_wallets[buyer_id] -= max_price_dec
CreateWallets(w, buyer_id, max_price) ==
    [w EXCEPT ![buyer_id] = @ - max_price]

\* The record create_escrow stores (created_at, a timestamp, is left out).
NewEscrow(buyer_id, max_price) ==
    [buyer |-> buyer_id, seller |-> None, max_price |-> max_price,
     actual_price |-> NoPrice, locked_amount |-> max_price, status |-> "locked"]

\* self.escrows[job_id] = {...}: a plain dict assignment, whether or not
\* job_id is already a key.
CreateEscrows(e, job_id, buyer_id, max_price) ==
    Put(e, job_id, NewEscrow(buyer_id, max_price))

create_escrow(job_id, buyer_id, max_price) ==
    LET r == CreateResult(agent_wallets, buyer_id, max_price) IN
    /\ ncalls < MaxCalls
    /\ IF r = "ok"
       THEN /\ agent_wallets' = CreateWallets(agent_wallets, buyer_id, max_price)
            /\ escrows' = CreateEscrows(escrows, job_id, buyer_id, max_price)
            /\ ledger' = [ledger EXCEPT
                   ![job_id].debited = @ + (agent_wallets[buyer_id] - agent_wallets'[buyer_id]),
                   ![job_id].lock = agent_wallets[buyer_id] - agent_wallets'[buyer_id],
                   ![job_id].creates = @ + 1]
       ELSE UNCHANGED <<agent_wallets, escrows, ledger>>
    /\ call' = [op |-> "create_escrow", job |-> job_id, agent |-> buyer_id,
                amount |-> max_price, result |-> r]
    /\ ncalls' = ncalls + 1

----------------------------------------------------------------------------
(* release_payment *)

\* A release that does not look at the record's status.
ReleaseResult_NoStatus(e, job_id, actual_price) ==
    IF job_id \notin DOMAIN e THEN "EscrowNotFoundError"
    ELSE IF actual_price > e[job_id].max_price THEN "OverchargeError"
    ELSE "ok"

\* How release_payment ends: EscrowNotFoundError for a job with no record,
\* ValueError for a record that is not locked, OverchargeError for a price
\* above max_price, and a plain return otherwise.
ReleaseResult(e, job_id, actual_price) ==
    IF job_id \notin DOMAIN e THEN "EscrowNotFoundError"
    ELSE IF e[job_id].status # "locked" THEN "ValueError"
    ELSE IF actual_price > e[job_id].max_price THEN "OverchargeError"
    ELSE "ok"

\* An overcharge rejection that forgets the refund.
OverchargeWallets_NoRefund(w, rec) == w

\* Overcharge branch: self.agent_wallets[escrow["buyer"]] += escrow["locked_amount"]
OverchargeWallets(w, rec) ==
    [w EXCEPT ![rec.buyer] = @ + rec.locked_amount]

\* Overcharge branch: escrow["status"] = "rejected_overcharge"
OverchargeRecord(rec) == [rec EXCEPT !.status = "rejected_overcharge"]

\* Pay seller: self.agent_wallets[seller_id] = self.agent_wallets.get(seller_id, 0) + actual_price_dec
PaySeller(w, seller_id, actual_price) ==
    Put(w, seller_id, Balance(w, seller_id) + actual_price)

\* A release that keeps the unused funds.
Refund_None(rec, actual_price) == 0

\* refund = escrow["locked_amount"] - actual_price_dec
Refund(rec, actual_price) == rec.locked_amount - actual_price

\* self.agent_wallets[escrow["buyer"]] += refund
RefundBuyer(w, rec, amount) == [w EXCEPT ![rec.buyer] = @ + amount]

\* Normal branch, both wallet updates in the order of the source.
ReleaseWallets(w, rec, seller_id, actual_price) ==
    RefundBuyer(PaySeller(w, seller_id, actual_price), rec, Refund(rec, actual_price))

\* Normal branch: the record's seller, actual_price and status.
ReleaseRecord(rec, seller_id, actual_price) ==
    [rec EXCEPT !.seller = seller_id, !.actual_price = <<actual_price>>,
                !.status = "completed"]

release_payment(job_id, seller_id, actual_price) ==
    LET r == ReleaseResult(escrows, job_id, actual_price) IN
    /\ ncalls < MaxCalls
    /\ CASE r = "OverchargeError" ->
              /\ agent_wallets' = OverchargeWallets(agent_wallets, escrows[job_id])
              /\ escrows' = [escrows EXCEPT ![job_id] = OverchargeRecord(@)]
              /\ ledger' = [ledger EXCEPT ![job_id].refunded =
                     @ + (agent_wallets'[escrows[job_id].buyer]
                          - agent_wallets[escrows[job_id].buyer])]
         [] r = "ok" ->
              LET paid == PaySeller(agent_wallets, seller_id, actual_price) IN
              /\ agent_wallets' =
                     ReleaseWallets(agent_wallets, escrows[job_id], seller_id, actual_price)
              /\ escrows' = [escrows EXCEPT
                     ![job_id] = ReleaseRecord(@, seller_id, actual_price)]
              /\ ledger' = [ledger EXCEPT
                     ![job_id].paid = @ + (paid[seller_id] - Balance(agent_wallets, seller_id)),
                     ![job_id].refunded = @ + (agent_wallets'[escrows[job_id].buyer]
                                               - paid[escrows[job_id].buyer])]
         [] OTHER -> UNCHANGED <<agent_wallets, escrows, ledger>>
    /\ call' = [op |-> "release_payment", job |-> job_id, agent |-> seller_id,
                amount |-> actual_price, result |-> r]
    /\ ncalls' = ncalls + 1

----------------------------------------------------------------------------
(* refund *)

\* A refund that is not told apart from a record already settled.
RefundResult_NoStatus(e, job_id) ==
    IF job_id \notin DOMAIN e THEN "EscrowNotFoundError" ELSE "ok"

\* How refund ends: EscrowNotFoundError for a job with no record; a plain
\* return otherwise ("noop" marks the early return on a record that is not
\* locked).
RefundResult(e, job_id) ==
    IF job_id \notin DOMAIN e THEN "EscrowNotFoundError"
    ELSE IF e[job_id].status # "locked" THEN "noop"
    ELSE "ok"

\* A cancellation that marks the record and credits nobody.
RefundWallets_NoCredit(w, rec) == w

\* self.agent_wallets[escrow["buyer"]] += escrow["locked_amount"]
RefundWallets(w, rec) == [w EXCEPT ![rec.buyer] = @ + rec.locked_amount]

\* escrow["status"] = "refunded"
RefundRecord(rec) == [rec EXCEPT !.status = "refunded"]

refund(job_id) ==
    LET r == RefundResult(escrows, job_id) IN
    /\ ncalls < MaxCalls
    /\ IF r = "ok"
       THEN /\ agent_wallets' = RefundWallets(agent_wallets, escrows[job_id])
            /\ escrows' = [escrows EXCEPT ![job_id] = RefundRecord(@)]
            /\ ledger' = [ledger EXCEPT ![job_id].refunded =
                   @ + (agent_wallets'[escrows[job_id].buyer]
                        - agent_wallets[escrows[job_id].buyer])]
       ELSE UNCHANGED <<agent_wallets, escrows, ledger>>
    /\ call' = [op |-> "refund", job |-> job_id, agent |-> None,
                amount |-> 0, result |-> r]
    /\ ncalls' = ncalls + 1

----------------------------------------------------------------------------
(* get_balance, as a call: it only reads; `amount` holds what it returned. *)

wallet_balance(agent_id) ==
    /\ ncalls < MaxCalls
    /\ call' = [op |-> "get_balance", job |-> None, agent |-> agent_id,
                amount |-> get_balance(agent_id), result |-> "ok"]
    /\ ncalls' = ncalls + 1
    /\ UNCHANGED <<agent_wallets, escrows, ledger>>

----------------------------------------------------------------------------
(* Registry: numbers *)

\* Ratings are floats in the source.  They are modelled as exact fractions
\* [n |-> numerator, d |-> denominator > 0] in lowest terms, that is by the
\* real number the float arithmetic approximates.
RECURSIVE GCD(_, _)
GCD(a, b) == IF b = 0 THEN a ELSE GCD(b, a % b)

Abs(x) == IF x < 0 THEN -x ELSE x

Frac(n, d) ==
    LET g == GCD(Abs(n), d) IN
    IF g = 0 THEN [n |-> 0, d |-> 1] ELSE [n |-> n \div g, d |-> d \div g]

FracOf(i) == [n |-> i, d |-> 1]

FracLeq(x, y) == x.n * y.d <= y.n * x.d

FracMax(x, y) == IF FracLeq(x, y) THEN y ELSE x

FracSub(x, y) == Frac(x.n * y.d - y.n * x.d, x.d * y.d)

\* A mean that forgets the weight of the old rating.
FracMean_Unweighted(x, k, y, m) == Frac(x.n * y.d + y.n * x.d, x.d * y.d * m)

\* (x * k + y) / m for integers k >= 0, m > 0
FracMean(x, k, y, m) == Frac(x.n * k * y.d + y.n * x.d, x.d * y.d * m)

\* Column defaults of AgentRecord.
DefaultRating == 5

\* avg_response_time default 0.5 s, in milliseconds
DefaultResponseMs == 500

\* The rating taken off by a failed transaction: 0.1
Penalty == [n |-> 1, d |-> 10]

\* rating floor of the penalty: 1.0
MinRating == 1

----------------------------------------------------------------------------
(* Registry: inputs *)

\* Number of registry requests in a run.
MaxRequests == 4

AgentNames == {"ChartBot_Budget_v1", "ChartBot_Pro_v1"}

Urls == {"http://127.0.0.1:8001", "http://127.0.0.1:8002"}

Capabilities == {"generate_charts", "summarize_text"}

\* Prices of a registration, in hundredths: the request model refuses a
\* price that is not above zero.
RegisterPrices == {0, 3, 5}

\* Amounts of a transaction report, in hundredths (the request model admits
\* amount >= 0).
ReportAmounts == {0, 3}

BuyerIds == {"PM_Budget"}

\* Transaction ids a buyer rates: the first two rows, whether or not they
\* exist yet.
TransactionIds == {1, 2}

\* Ratings a buyer submits (the request model admits 1.0 <= rating <= 5.0).
SubmittedRatings == {1, 3, 5}

----------------------------------------------------------------------------
(* Registry: register_agent *)

\* A request model without the bound on price.
RegisterResult_Unchecked(price) == "ok"

\* AgentRegisterRequest: price is Field(gt=0); FastAPI answers 422 before
\* the handler runs when the body does not validate.
RegisterResult(price) == IF price > 0 THEN "ok" ELSE "ValidationError"

\* The row a first registration inserts (registered_at, a timestamp that no
\* response shows, and uptime_pct, which nothing reads, are left out).
NewAgent(tbl, name, url, capability, price) ==
    [id |-> Cardinality(DOMAIN tbl) + 1, name |-> name, url |-> url,
     capability |-> capability, price |-> price,
     rating |-> FracOf(DefaultRating), total_jobs |-> 0, successful_jobs |-> 0,
     failed_jobs |-> 0, avg_response_time |-> DefaultResponseMs, total_earned |-> 0]

\* An update that writes a fresh row over the old one.
UpdatedAgent_Reset(row, url, capability, price) ==
    [row EXCEPT !.url = url, !.capability = capability, !.price = price,
                !.rating = FracOf(DefaultRating), !.total_jobs = 0,
                !.successful_jobs = 0, !.failed_jobs = 0, !.total_earned = 0]

\* The update of an existing row.
UpdatedAgent(row, url, capability, price) ==
    [row EXCEPT !.url = url, !.capability = capability, !.price = price]

\* The agents table after the handler's commit.
RegisterAgents(tbl, name, url, capability, price) ==
    IF name \in DOMAIN tbl
    THEN [tbl EXCEPT ![name] = UpdatedAgent(@, url, capability, price)]
    ELSE Put(tbl, name, NewAgent(tbl, name, url, capability, price))

register_agent(name, url, capability, price) ==
    LET r == RegisterResult(price) IN
    /\ ncalls < MaxRequests
    /\ agents' = IF r = "ok" THEN RegisterAgents(agents, name, url, capability, price)
                 ELSE agents
    /\ rcall' = [op |-> "register", name |-> name, url |-> url,
                 capability |-> capability, price |-> price, result |-> r]
    /\ ncalls' = ncalls + 1
    /\ UNCHANGED <<transactions, feedback>>

----------------------------------------------------------------------------
(* Registry: report_transaction *)

\* 404 "Agent not found" when the seller has no row.
ReportResult(tbl, seller_name) ==
    IF seller_name \in DOMAIN tbl THEN "ok" ELSE "NotFound"

\* A journal that numbers the transactions of each seller from 1.
NewTransaction_PerSeller(txs, tbl, buyer_id, seller_name, amount, success) ==
    [id |-> Cardinality({i \in DOMAIN txs : txs[i].seller_name = seller_name}) + 1,
     buyer_id |-> buyer_id, seller_name |-> seller_name,
     capability |-> tbl[seller_name].capability, price |-> amount,
     success |-> success]

\* TransactionRecord(...): its id is the next row id.
NewTransaction(txs, tbl, buyer_id, seller_name, amount, success) ==
    [id |-> Len(txs) + 1, buyer_id |-> buyer_id, seller_name |-> seller_name,
     capability |-> tbl[seller_name].capability, price |-> amount,
     success |-> success]

\* A penalty without its floor.
Penalized_NoFloor(rating) == FracSub(rating, Penalty)

\* agent.rating = max(1.0, agent.rating - 0.1)
Penalized(rating) == FracMax(FracOf(MinRating), FracSub(rating, Penalty))

\* An update that counts a job only when it succeeded.
ReportedAgent_SuccessOnly(row, amount, success) ==
    IF success
    THEN [row EXCEPT !.total_jobs = @ + 1, !.successful_jobs = @ + 1,
                     !.total_earned = @ + amount]
    ELSE [row EXCEPT !.failed_jobs = @ + 1, !.rating = Penalized(@)]

\* "Update agent stats"
ReportedAgent(row, amount, success) ==
    IF success
    THEN [row EXCEPT !.total_jobs = @ + 1, !.successful_jobs = @ + 1,
                     !.total_earned = @ + amount]
    ELSE [row EXCEPT !.total_jobs = @ + 1, !.failed_jobs = @ + 1,
                     !.rating = Penalized(@)]

report_transaction(buyer_id, seller_name, amount, success) ==
    LET r == ReportResult(agents, seller_name) IN
    /\ ncalls < MaxRequests
    /\ IF r = "ok"
       THEN /\ transactions' = Append(transactions,
                   NewTransaction(transactions, agents, buyer_id, seller_name,
                                  amount, success))
            /\ agents' = [agents EXCEPT ![seller_name] = ReportedAgent(@, amount, success)]
       ELSE UNCHANGED <<transactions, agents>>
    /\ rcall' = [op |-> "report", buyer_id |-> buyer_id, seller_name |-> seller_name,
                 amount |-> amount, success |-> success, result |-> r,
                 transaction_id |-> IF r = "ok" THEN Len(transactions) + 1 ELSE 0]
    /\ ncalls' = ncalls + 1
    /\ UNCHANGED feedback

----------------------------------------------------------------------------
(* Registry: rate_transaction *)

\* 404 when the transaction, or the agent it names, has no row.
RateResult(txs, tbl, transaction_id) ==
    IF transaction_id \notin DOMAIN txs THEN "NotFound"
    ELSE IF txs[transaction_id].seller_name \notin DOMAIN tbl THEN "NotFound"
    ELSE "ok"

\* FeedbackRecord(...) (feedback_text and would_hire_again are stored and
\* never read; they are left out).
NewFeedback(fbs, transaction_id, agent_name, rating) ==
    [id |-> Len(fbs) + 1, transaction_id |-> transaction_id,
     agent_name |-> agent_name, rating |-> rating]

\* A rating that counts the job and neither a success nor a failure.
RatedAgent_TotalOnly(row, rating) ==
    [row EXCEPT !.total_jobs = @ + 1,
                !.rating = FracMean(@, row.total_jobs, FracOf(rating), row.total_jobs + 1)]

\* The plain mean of the old rating and the new one.
RatedAgent_Unweighted(row, rating) ==
    LET avg == FracMean(row.rating, 1, FracOf(rating), 2) IN
    IF rating >= 3
    THEN [row EXCEPT !.total_jobs = @ + 1, !.rating = avg, !.successful_jobs = @ + 1]
    ELSE [row EXCEPT !.total_jobs = @ + 1, !.rating = avg, !.failed_jobs = @ + 1]

\* "Update agent aggregates"
RatedAgent(row, rating) ==
    LET prev_total == row.total_jobs
        prev_rating == row.rating
        total == prev_total + 1
        avg == FracMean(prev_rating, prev_total, FracOf(rating), total)
    IN IF rating >= 3
       THEN [row EXCEPT !.total_jobs = total, !.rating = avg,
                        !.successful_jobs = @ + 1]
       ELSE [row EXCEPT !.total_jobs = total, !.rating = avg,
                        !.failed_jobs = @ + 1]

\* A handler that stores the feedback before it looks anything up.
rate_transaction_FeedbackFirst(transaction_id, rating) ==
    LET r == RateResult(transactions, agents, transaction_id) IN
    /\ ncalls < MaxRequests
    /\ feedback' = Append(feedback, NewFeedback(feedback, transaction_id, None, rating))
    /\ IF r = "ok"
       THEN agents' = [agents EXCEPT ![transactions[transaction_id].seller_name] =
                          RatedAgent(@, rating)]
       ELSE UNCHANGED agents
    /\ rcall' = [op |-> "rate", transaction_id |-> transaction_id,
                 rating |-> rating, result |-> r]
    /\ ncalls' = ncalls + 1
    /\ UNCHANGED transactions

rate_transaction(transaction_id, rating) ==
    LET r == RateResult(transactions, agents, transaction_id) IN
    /\ ncalls < MaxRequests
    /\ IF r = "ok"
       THEN LET name == transactions[transaction_id].seller_name IN
            /\ feedback' = Append(feedback,
                   NewFeedback(feedback, transaction_id, name, rating))
            /\ agents' = [agents EXCEPT ![name] = RatedAgent(@, rating)]
       ELSE UNCHANGED <<feedback, agents>>
    /\ rcall' = [op |-> "rate", transaction_id |-> transaction_id,
                 rating |-> rating, result |-> r]
    /\ ncalls' = ncalls + 1
    /\ UNCHANGED transactions

----------------------------------------------------------------------------
Init ==
    /\ escrows = [j \in {} |-> 0]
    /\ agent_wallets = [a \in SeededAgents |-> SeedBalance]
    /\ ledger = [j \in JobIds |-> [debited |-> 0, lock |-> 0, paid |-> 0, refunded |-> 0, creates |-> 0]]
    /\ call = [op |-> "init", job |-> None, agent |-> None, amount |-> 0, result |-> "ok"]
    /\ ncalls = 0
    /\ agents = [a \in {} |-> 0]
    /\ transactions = <<>>
    /\ feedback = <<>>
    /\ rcall = [op |-> "init", result |-> "ok"]
    /\ inflight = [t \in Slots |-> NoRequest]

Next ==
    \/ \E j \in JobIds, b \in AgentIds, m \in Prices : create_escrow(j, b, m) /\ UNCHANGED <<registryVars, inflight>>
    \/ \E j \in JobIds, s \in AgentIds, a \in Prices : release_payment(j, s, a) /\ UNCHANGED <<registryVars, inflight>>
    \/ \E j \in JobIds : refund(j) /\ UNCHANGED <<registryVars, inflight>>
    \/ \E a \in AgentIds : wallet_balance(a) /\ UNCHANGED <<registryVars, inflight>>

Spec == Init /\ [][Next]_vars

\* The same calls with prices above zero only: the behaviours of callers that
\* never pass a zero or negative amount.
PositivePrices == {p \in Prices : p > 0}

NextPositive ==
    \/ \E j \in JobIds, b \in AgentIds, m \in PositivePrices : create_escrow(j, b, m) /\ UNCHANGED <<registryVars, inflight>>
    \/ \E j \in JobIds, s \in AgentIds, a \in PositivePrices : release_payment(j, s, a) /\ UNCHANGED <<registryVars, inflight>>
    \/ \E j \in JobIds : refund(j) /\ UNCHANGED <<registryVars, inflight>>
    \/ \E a \in AgentIds : wallet_balance(a) /\ UNCHANGED <<registryVars, inflight>>

SpecPositive == Init /\ [][NextPositive]_vars

\* The registry's requests, each handled in one step: every handler is an
\* `async def` that never awaits, so the event loop of the single server
\* process runs it from its first line to its commit without interruption.
RegistryNext ==
    \/ \E n \in AgentNames, u \in Urls, c \in Capabilities, p \in RegisterPrices :
           register_agent(n, u, c, p) /\ UNCHANGED <<escrowVars, inflight>>
    \/ \E b \in BuyerIds, n \in AgentNames, a \in ReportAmounts, ok \in BOOLEAN :
           report_transaction(b, n, a, ok) /\ UNCHANGED <<escrowVars, inflight>>
    \/ \E t \in TransactionIds, r \in SubmittedRatings :
           rate_transaction(t, r) /\ UNCHANGED <<escrowVars, inflight>>

SpecRegistry == Init /\ [][RegistryNext]_vars

\* A registry that has been in use: ChartBot_Budget_v1 registered once and
\* then had AgedReports failed transactions reported, one after the other.
AgedReports == 40

AgedSeller == "ChartBot_Budget_v1"

RECURSIVE AgedRow(_)
AgedRow(k) ==
    IF k = 0
    THEN NewAgent([a \in {} |-> 0], AgedSeller, "http://127.0.0.1:8001",
                  "generate_charts", 3)
    ELSE ReportedAgent(AgedRow(k - 1), 3, FALSE)

AgedTransactions ==
    [i \in 1..AgedReports |->
        [id |-> i, buyer_id |-> "PM_Budget", seller_name |-> AgedSeller,
         capability |-> "generate_charts", price |-> 3, success |-> FALSE]]

InitAged ==
    /\ escrows = [j \in {} |-> 0]
    /\ agent_wallets = [a \in SeededAgents |-> SeedBalance]
    /\ ledger = [j \in JobIds |-> [debited |-> 0, lock |-> 0, paid |-> 0, refunded |-> 0, creates |-> 0]]
    /\ call = [op |-> "init", job |-> None, agent |-> None, amount |-> 0, result |-> "ok"]
    /\ ncalls = 0
    /\ agents = [a \in {AgedSeller} |-> AgedRow(AgedReports)]
    /\ transactions = AgedTransactions
    /\ feedback = <<>>
    /\ rcall = [op |-> "init", result |-> "ok"]
    /\ inflight = [t \in Slots |-> NoRequest]

\* Number of requests in a run that starts from the aged registry.
MaxAgedRequests == 3

AgedNext == ncalls < MaxAgedRequests /\ RegistryNext

SpecRegistryAged == InitAged /\ [][AgedNext]_vars

----------------------------------------------------------------------------
(* Registry: calculate_agent_score and search_agents *)

FracAdd(x, y) == Frac(x.n * y.d + y.n * x.d, x.d * y.d)

FracMul(x, y) == Frac(x.n * y.n, x.d * y.d)

FracMin(x, y) == IF FracLeq(x, y) THEN x ELSE y

FracLess(x, y) == x.n * y.d < y.n * x.d

\* max(0.0, min(1.0, x))
Clamp01(x) == FracMax(FracOf(0), FracMin(FracOf(1), x))

\* Python's `x or default`: the default stands in for None and for 0.0.
OrDefault(x, default) == IF x.n = 0 THEN default ELSE x

\* An optional query parameter: given with a value, or left out (None).
Given(v) == [given |-> TRUE, value |-> v]

Absent == [given |-> FALSE, value |-> 0]

\* AgentRecord.success_rate, in percent
success_rate(row) ==
    IF row.total_jobs = 0 THEN FracOf(100)
    ELSE Frac(row.successful_jobs * 100, row.total_jobs)

\* price_score: 1.0, or max(0, 1 - price / max_price) when max_price > 0
price_score(row, max_price) ==
    IF max_price > 0
    THEN FracMax(FracOf(0), FracSub(FracOf(1), Frac(row.price, max_price)))
    ELSE FracOf(1)

\* quality_score = max(0.0, min(1.0, (agent.rating or 5.0) / 5.0))
quality_score(row) ==
    Clamp01(FracMul(OrDefault(row.rating, FracOf(DefaultRating)), Frac(1, 5)))

\* speed_score: 1.0, or max(0, 1 - avg_response_time / max_resp_time)
speed_score(row, max_resp_time) ==
    IF max_resp_time > 0
    THEN FracMax(FracOf(0), FracSub(FracOf(1), Frac(row.avg_response_time, max_resp_time)))
    ELSE FracOf(1)

\* reliability_score = max(0.0, min(1.0, (agent.success_rate or 100.0) / 100.0))
reliability_score(row) ==
    Clamp01(FracMul(OrDefault(success_rate(row), FracOf(100)), Frac(1, 100)))

\* A score that adds the price itself where the price sub-score belongs.
calculate_agent_score_RawPrice(row, max_price, max_resp_time, prefs) ==
    FracAdd(FracAdd(FracMul(FracOf(row.price), prefs.price_weight),
                    FracMul(quality_score(row), prefs.quality_weight)),
            FracAdd(FracMul(speed_score(row, max_resp_time), prefs.speed_weight),
                    FracMul(reliability_score(row), prefs.reliability_weight)))

calculate_agent_score(row, max_price, max_resp_time, prefs) ==
    FracAdd(FracAdd(FracMul(price_score(row, max_price), prefs.price_weight),
                    FracMul(quality_score(row), prefs.quality_weight)),
            FracAdd(FracMul(speed_score(row, max_resp_time), prefs.speed_weight),
                    FracMul(reliability_score(row), prefs.reliability_weight)))

\* Weights are given in tenths (0.3 is 3).
WeightTotal(w) == w.price_weight + w.quality_weight + w.speed_weight + w.reliability_weight

\* The weights as they were given, not divided by their sum.
Prefs_Raw(w) ==
    [price_weight |-> Frac(w.price_weight, 10),
     quality_weight |-> Frac(w.quality_weight, 10),
     speed_weight |-> Frac(w.speed_weight, 10),
     reliability_weight |-> Frac(w.reliability_weight, 10)]

\* "Normalize weights to sum to 1.0"
Prefs(w) ==
    [price_weight |-> Frac(w.price_weight, WeightTotal(w)),
     quality_weight |-> Frac(w.quality_weight, WeightTotal(w)),
     speed_weight |-> Frac(w.speed_weight, WeightTotal(w)),
     reliability_weight |-> Frac(w.reliability_weight, WeightTotal(w))]

\* The exclude parameter is a string; it is modelled by its pieces between
\* the commas, each a text with or without blanks around it.  split(","),
\* strip() and the test for an empty piece give the set of names.
ExcludeSet(exclude) == {exclude[i].text : i \in DOMAIN exclude} \ {""}

\* A filter that ignores the cap on the price.
Matches_AnyPrice(row, capability, max_price, min_rating) ==
    /\ row.capability = capability
    /\ min_rating.given => FracLeq(FracOf(min_rating.value), row.rating)

\* The WHERE clause of the query.
Matches(row, capability, max_price, min_rating) ==
    /\ row.capability = capability
    /\ max_price.given => row.price <= max_price.value
    /\ min_rating.given => FracLeq(FracOf(min_rating.value), row.rating)

\* query.all(): the names of the matching rows, in the order of their ids.
RECURSIVE RowsFrom(_, _, _, _, _)
RowsFrom(tbl, id, capability, max_price, min_rating) ==
    IF id > Cardinality(DOMAIN tbl) THEN <<>>
    ELSE LET n == CHOOSE x \in DOMAIN tbl : tbl[x].id = id
             rest == RowsFrom(tbl, id + 1, capability, max_price, min_rating)
         IN IF Matches(tbl[n], capability, max_price, min_rating)
            THEN <<n>> \o rest ELSE rest

Candidates(tbl, capability, max_price, min_rating) ==
    RowsFrom(tbl, 1, capability, max_price, min_rating)

\* max(... for c in candidates, default=0.0)
RECURSIVE MaxOver(_, _, _)
MaxOver(tbl, names, field) ==
    IF names = <<>> THEN 0
    ELSE LET m == MaxOver(tbl, Tail(names), field)
             v == tbl[Head(names)][field]
         IN IF v > m THEN v ELSE m

\* How a search ends: 422 for a limit outside 1..20, 400 when the weights
\* sum to nothing, 404 when the query finds no row.
SearchResult(tbl, capability, limit, w, max_price, min_rating) ==
    IF limit < 1 \/ limit > 20 THEN "ValidationError"
    ELSE IF WeightTotal(w) <= 0 THEN "InvalidInput"
    ELSE IF Candidates(tbl, capability, max_price, min_rating) = <<>> THEN "NotFound"
    ELSE "ok"

\* A loop that scores every candidate, the excluded ones too.
RECURSIVE Scored_NoExclusion(_, _, _, _, _, _)
Scored_NoExclusion(tbl, names, excluded, max_price_val, max_resp_time, prefs) ==
    IF names = <<>> THEN <<>>
    ELSE <<[name |-> Head(names), price |-> tbl[Head(names)].price,
            score |-> calculate_agent_score(tbl[Head(names)], max_price_val,
                                            max_resp_time, prefs)]>>
         \o Scored_NoExclusion(tbl, Tail(names), excluded, max_price_val,
                               max_resp_time, prefs)

\* The loop that scores the candidates and skips the excluded ones.
RECURSIVE Scored(_, _, _, _, _, _)
Scored(tbl, names, excluded, max_price_val, max_resp_time, prefs) ==
    IF names = <<>> THEN <<>>
    ELSE LET c == Head(names)
             rest == Scored(tbl, Tail(names), excluded, max_price_val, max_resp_time, prefs)
         IN IF c \in excluded THEN rest
            ELSE <<[name |-> c, price |-> tbl[c].price,
                    score |-> calculate_agent_score(tbl[c], max_price_val,
                                                    max_resp_time, prefs)]>> \o rest

\* A key that prefers the low score.
SortsBefore_Ascending(x, y) ==
    \/ FracLess(x.score, y.score)
    \/ x.score = y.score /\ x.price < y.price

\* key=lambda x: (-x[1], x[0].price): x comes strictly before y
SortsBefore(x, y) ==
    \/ FracLess(y.score, x.score)
    \/ x.score = y.score /\ x.price < y.price

\* list.sort is stable: x goes behind every element it does not precede.
RECURSIVE Inserted(_, _)
Inserted(sorted, x) ==
    IF sorted = <<>> THEN <<x>>
    ELSE IF SortsBefore(x, Head(sorted)) THEN <<x>> \o sorted
    ELSE <<Head(sorted)>> \o Inserted(Tail(sorted), x)

RECURSIVE Sorted(_)
Sorted(scored) ==
    IF scored = <<>> THEN <<>>
    ELSE Inserted(Sorted(SubSeq(scored, 1, Len(scored) - 1)), scored[Len(scored)])

\* scored[:limit]
Top(scored, limit) == SubSeq(scored, 1, IF limit < Len(scored) THEN limit ELSE Len(scored))

\* What a search returns: the scored agents, best first.
Ranking(tbl, capability, limit, exclude, w, max_price, min_rating) ==
    LET names == Candidates(tbl, capability, max_price, min_rating) IN
    Top(Sorted(Scored(tbl, names, ExcludeSet(exclude),
                      MaxOver(tbl, names, "price"),
                      MaxOver(tbl, names, "avg_response_time"), Prefs(w))),
        limit)

search_agents(capability, limit, exclude, w, max_price, min_rating) ==
    LET r == SearchResult(agents, capability, limit, w, max_price, min_rating) IN
    /\ rcall' = [op |-> "search", capability |-> capability, limit |-> limit,
                 exclude |-> exclude, weights |-> w, max_price |-> max_price,
                 min_rating |-> min_rating, result |-> r,
                 found |-> IF r = "ok"
                           THEN Ranking(agents, capability, limit, exclude, w,
                                        max_price, min_rating)
                           ELSE <<>>]
    /\ ncalls' = ncalls + 1
    /\ UNCHANGED <<agents, transactions, feedback>>

----------------------------------------------------------------------------
(* Searches over registries with a history *)

\* The three tables, as the handlers leave them.
Journal(tbl, txs, fbs) == [agents |-> tbl, transactions |-> txs, feedback |-> fbs]

Registered(st, name, url, capability, price) ==
    [st EXCEPT !.agents = RegisterAgents(@, name, url, capability, price)]

Reported(st, buyer_id, seller_name, amount, success) ==
    [st EXCEPT
        !.transactions = Append(@, NewTransaction(@, st.agents, buyer_id, seller_name,
                                                  amount, success)),
        !.agents = [@ EXCEPT ![seller_name] = ReportedAgent(@, amount, success)]]

Rated(st, transaction_id, rating) ==
    LET name == st.transactions[transaction_id].seller_name IN
    [st EXCEPT
        !.feedback = Append(@, NewFeedback(@, transaction_id, name, rating)),
        !.agents = [@ EXCEPT ![name] = RatedAgent(@, rating)]]

\* What has happened to an agent since it registered: nothing; one failed
\* job; one failed job, rated 3.
Histories == {"new", "failed", "mixed"}

WithHistory(st, name, h) ==
    CASE h = "new" -> st
      [] h = "failed" -> Reported(st, "PM_Budget", name, 0, FALSE)
      [] h = "mixed" ->
            LET s == Reported(st, "PM_Budget", name, 0, FALSE)
            IN Rated(s, Len(s.transactions), 3)

\* PRICE_PER_TASK of the summarizer, in hundredths
SummarizerPrice == 2

\* Three sellers register, then the two chart sellers get their histories.
SearchTable(budget_price, pro_price, third_capability, budget_history, pro_history) ==
    LET s0 == Journal([a \in {} |-> 0], <<>>, <<>>)
        s1 == Registered(s0, "ChartBot_Budget_v1", "http://127.0.0.1:8001",
                         "generate_charts", budget_price)
        s2 == Registered(s1, "ChartBot_Pro_v1", "http://127.0.0.1:8002",
                         "generate_charts", pro_price)
        s3 == Registered(s2, "TextSummarize_v1", "http://127.0.0.1:8003",
                         third_capability, SummarizerPrice)
    IN WithHistory(WithHistory(s3, "ChartBot_Budget_v1", budget_history),
                   "ChartBot_Pro_v1", pro_history)

SearchTables ==
    {SearchTable(bp, pp, c, bh, ph) :
        bp \in {3, 5}, pp \in {5}, c \in Capabilities,
        bh \in Histories, ph \in {"new", "failed"}}

\* Query parameters of a search.
Limits == {0, 1, 2}

Excludes ==
    {<<>>,
     <<[text |-> "ChartBot_Budget_v1", padded |-> TRUE], [text |-> "", padded |-> FALSE]>>}

Weights(p, q, s, r) ==
    [price_weight |-> p, quality_weight |-> q, speed_weight |-> s, reliability_weight |-> r]

\* In tenths: the defaults of the endpoint, a buyer on a budget, nothing at
\* all, reliability alone, the defaults doubled.
WeightChoices ==
    {Weights(3, 4, 2, 1), Weights(8, 1, 1, 0), Weights(0, 0, 0, 0),
     Weights(0, 0, 0, 10), Weights(6, 8, 4, 2)}

\* max_price and min_rating: neither, a cap of 0.03, a minimum of 5.0
Filters == {<<Absent, Absent>>, <<Given(3), Absent>>, <<Absent, Given(5)>>}

\* Number of searches in a run.
MaxSearches == 1

InitSearch ==
    /\ escrows = [j \in {} |-> 0]
    /\ agent_wallets = [a \in SeededAgents |-> SeedBalance]
    /\ ledger = [j \in JobIds |->
           [debited |-> 0, lock |-> 0, paid |-> 0, refunded |-> 0, creates |-> 0]]
    /\ call = [op |-> "init", job |-> None, agent |-> None, amount |-> 0, result |-> "ok"]
    /\ ncalls = 0
    /\ \E st \in SearchTables :
           /\ agents = st.agents
           /\ transactions = st.transactions
           /\ feedback = st.feedback
    /\ rcall = [op |-> "init", result |-> "ok"]
    /\ inflight = [t \in Slots |-> NoRequest]

SearchNext ==
    /\ ncalls < MaxSearches
    /\ \E c \in Capabilities, l \in Limits, e \in Excludes, w \in WeightChoices,
          f \in Filters :
           search_agents(c, l, e, w, f[1], f[2])
    /\ UNCHANGED <<escrowVars, inflight>>

SpecSearch == InitSearch /\ [][SearchNext]_vars

----------------------------------------------------------------------------
(* Escrow operations in flight at the same time.                           *)
(*                                                                         *)
(* Each method of EscrowManager is cut at its statements: its checks, each *)
(* wallet assignment, the record update.  Which request may take its next  *)
(* step is decided by the endpoints that call EscrowManager; they are not  *)
(* among the sources, and EscrowMayStep states the discipline section 5 of *)
(* the specification requires of them.                                     *)

EscrowRequest(op, job_id, agent_id, amount) ==
    [op |-> op, job |-> job_id, agent |-> agent_id, amount |-> amount,
     pc |-> "start", result |-> "pending"]

\* The operation has passed its checks and has not returned.
InProgress(t) == inflight[t].pc \notin {"start", "done"}

\* The operation has assigned a wallet and not yet the record.
Mutating(t) ==
    inflight[t].pc \in {"insert", "over_status", "refund_buyer", "record", "status"}

\* A dispatcher with no discipline at all.
EscrowMayStep_Unlocked(t) == TRUE

\* A lock per job and nothing more: another job's operation, or a balance
\* read, runs in the middle of a change.
EscrowMayStep_JobLockOnly(t) ==
    \A u \in Slots \ {t} : inflight[u].job = inflight[t].job => ~InProgress(u)

\* Section 5: operations on the same job are serialized, operations on
\* different jobs may overlap, and nothing runs between a wallet assignment
\* and the record update that belongs to it.
EscrowMayStep(t) ==
    \A u \in Slots \ {t} :
        /\ ~Mutating(u)
        /\ inflight[u].job = inflight[t].job => ~InProgress(u)

\* The handler in slot t moves to pc (and, at "done", ends with result).
Advance(t, pc, result) ==
    inflight' = [inflight EXCEPT ![t].pc = pc, ![t].result = result]

At(t, op, pc) == inflight[t].op = op /\ inflight[t].pc = pc /\ EscrowMayStep(t)

\* create_escrow, lines 44-49: the balance check
CreateCheck(t) ==
    LET q == inflight[t] IN
    /\ At(t, "create_escrow", "start")
    /\ IF Balance(agent_wallets, q.agent) < q.amount
       THEN Advance(t, "done", "InsufficientFundsError")
       ELSE Advance(t, "debit", "pending")
    /\ UNCHANGED <<agent_wallets, escrows, ledger>>

\* create_escrow, line 52: the debit
CreateDebit(t) ==
    LET q == inflight[t] IN
    /\ At(t, "create_escrow", "debit")
    /\ IF q.agent \notin DOMAIN agent_wallets
       THEN Advance(t, "done", "KeyError") /\ UNCHANGED <<agent_wallets, ledger>>
       ELSE /\ agent_wallets' = CreateWallets(agent_wallets, q.agent, q.amount)
            /\ ledger' = [ledger EXCEPT
                   ![q.job].debited = @ + (agent_wallets[q.agent] - agent_wallets'[q.agent]),
                   ![q.job].lock = agent_wallets[q.agent] - agent_wallets'[q.agent]]
            /\ Advance(t, "insert", "pending")
    /\ UNCHANGED escrows

\* create_escrow, lines 54-62: the record
CreateInsert(t) ==
    LET q == inflight[t] IN
    /\ At(t, "create_escrow", "insert")
    /\ escrows' = CreateEscrows(escrows, q.job, q.agent, q.amount)
    /\ ledger' = [ledger EXCEPT ![q.job].creates = @ + 1]
    /\ Advance(t, "done", "ok")
    /\ UNCHANGED agent_wallets

\* release_payment, lines 72-80: lookup, status check, price check
ReleaseCheck(t) ==
    LET q == inflight[t]
        r == ReleaseResult(escrows, q.job, q.amount)
    IN /\ At(t, "release_payment", "start")
       /\ CASE r = "ok" -> Advance(t, "pay", "pending")
            [] r = "OverchargeError" -> Advance(t, "over_refund", "pending")
            [] OTHER -> Advance(t, "done", r)
       /\ UNCHANGED <<agent_wallets, escrows, ledger>>

\* release_payment, line 87: the refund of an overcharge
OverchargeRefund(t) ==
    LET q == inflight[t]
        b == escrows[q.job].buyer
    IN /\ At(t, "release_payment", "over_refund")
       /\ agent_wallets' = OverchargeWallets(agent_wallets, escrows[q.job])
       /\ ledger' = [ledger EXCEPT ![q.job].refunded =
              @ + (agent_wallets'[b] - agent_wallets[b])]
       /\ Advance(t, "over_status", "pending")
       /\ UNCHANGED escrows

\* release_payment, lines 88-93: the status, then the raise
OverchargeStatus(t) ==
    LET q == inflight[t] IN
    /\ At(t, "release_payment", "over_status")
    /\ escrows' = [escrows EXCEPT ![q.job] = OverchargeRecord(@)]
    /\ Advance(t, "done", "OverchargeError")
    /\ UNCHANGED <<agent_wallets, ledger>>

\* release_payment, lines 97-98: pay the seller
ReleasePay(t) ==
    LET q == inflight[t] IN
    /\ At(t, "release_payment", "pay")
    /\ agent_wallets' = PaySeller(agent_wallets, q.agent, q.amount)
    /\ ledger' = [ledger EXCEPT ![q.job].paid =
           @ + (agent_wallets'[q.agent] - Balance(agent_wallets, q.agent))]
    /\ Advance(t, "refund_buyer", "pending")
    /\ UNCHANGED escrows

\* release_payment, lines 101-102: refund the unused funds
ReleaseRefund(t) ==
    LET q == inflight[t]
        rec == escrows[q.job]
    IN /\ At(t, "release_payment", "refund_buyer")
       /\ agent_wallets' = RefundBuyer(agent_wallets, rec, Refund(rec, q.amount))
       /\ ledger' = [ledger EXCEPT ![q.job].refunded =
              @ + (agent_wallets'[rec.buyer] - agent_wallets[rec.buyer])]
       /\ Advance(t, "record", "pending")
       /\ UNCHANGED escrows

\* release_payment, lines 105-107: the record
ReleaseComplete(t) ==
    LET q == inflight[t] IN
    /\ At(t, "release_payment", "record")
    /\ escrows' = [escrows EXCEPT ![q.job] = ReleaseRecord(@, q.agent, q.amount)]
    /\ Advance(t, "done", "ok")
    /\ UNCHANGED <<agent_wallets, ledger>>

\* refund, lines 117-122: lookup and status check
RefundCheck(t) ==
    LET q == inflight[t]
        r == RefundResult(escrows, q.job)
    IN /\ At(t, "refund", "start")
       /\ IF r = "ok" THEN Advance(t, "credit", "pending") ELSE Advance(t, "done", r)
       /\ UNCHANGED <<agent_wallets, escrows, ledger>>

\* refund, line 124: the credit
RefundCredit(t) ==
    LET q == inflight[t]
        b == escrows[q.job].buyer
    IN /\ At(t, "refund", "credit")
       /\ agent_wallets' = RefundWallets(agent_wallets, escrows[q.job])
       /\ ledger' = [ledger EXCEPT ![q.job].refunded =
              @ + (agent_wallets'[b] - agent_wallets[b])]
       /\ Advance(t, "status", "pending")
       /\ UNCHANGED escrows

\* refund, line 125: the status
RefundStatus(t) ==
    LET q == inflight[t] IN
    /\ At(t, "refund", "status")
    /\ escrows' = [escrows EXCEPT ![q.job] = RefundRecord(@)]
    /\ Advance(t, "done", "ok")
    /\ UNCHANGED <<agent_wallets, ledger>>

\* get_balance: one read; `amount` takes what it returned
BalanceRead(t) ==
    LET q == inflight[t] IN
    /\ At(t, "get_balance", "start")
    /\ inflight' = [inflight EXCEPT ![t].pc = "done", ![t].result = "ok",
                                    ![t].amount = get_balance(q.agent)]
    /\ UNCHANGED <<agent_wallets, escrows, ledger>>

\* The job that is locked when the requests arrive, its buyer and its amount.
ConcJob == "job1"

ConcBuyer == "PM_Budget"

ConcLock == 5

\* The requests that arrive together.
ConcRequests ==
    {EscrowRequest("release_payment", ConcJob, s, a) :
         s \in AgentIds, a \in {3, SeedBalance}}
    \cup {EscrowRequest("refund", j, None, 0) : j \in JobIds}
    \cup {EscrowRequest("create_escrow", "job2", ConcBuyer, 3),
          EscrowRequest("get_balance", None, ConcBuyer, 0)}

\* EscrowManager after create_escrow(ConcJob, ConcBuyer, ConcLock), with two
\* requests received and not yet started.
InitConc ==
    /\ agent_wallets = CreateWallets([a \in SeededAgents |-> SeedBalance],
                                     ConcBuyer, ConcLock)
    /\ escrows = CreateEscrows([j \in {} |-> 0], ConcJob, ConcBuyer, ConcLock)
    /\ ledger = [j \in JobIds |->
           IF j = ConcJob
           THEN [debited |-> ConcLock, lock |-> ConcLock, paid |-> 0, refunded |-> 0,
                 creates |-> 1]
           ELSE [debited |-> 0, lock |-> 0, paid |-> 0, refunded |-> 0, creates |-> 0]]
    /\ call = [op |-> "create_escrow", job |-> ConcJob, agent |-> ConcBuyer,
               amount |-> ConcLock, result |-> "ok"]
    /\ ncalls = 1
    /\ agents = [a \in {} |-> 0]
    /\ transactions = <<>>
    /\ feedback = <<>>
    /\ rcall = [op |-> "init", result |-> "ok"]
    /\ inflight \in [Slots -> ConcRequests]

ConcFrame == UNCHANGED <<call, ncalls, registryVars>>

NextConc ==
    \/ \E t \in Slots : CreateCheck(t) /\ ConcFrame
    \/ \E t \in Slots : CreateDebit(t) /\ ConcFrame
    \/ \E t \in Slots : CreateInsert(t) /\ ConcFrame
    \/ \E t \in Slots : ReleaseCheck(t) /\ ConcFrame
    \/ \E t \in Slots : OverchargeRefund(t) /\ ConcFrame
    \/ \E t \in Slots : OverchargeStatus(t) /\ ConcFrame
    \/ \E t \in Slots : ReleasePay(t) /\ ConcFrame
    \/ \E t \in Slots : ReleaseRefund(t) /\ ConcFrame
    \/ \E t \in Slots : ReleaseComplete(t) /\ ConcFrame
    \/ \E t \in Slots : RefundCheck(t) /\ ConcFrame
    \/ \E t \in Slots : RefundCredit(t) /\ ConcFrame
    \/ \E t \in Slots : RefundStatus(t) /\ ConcFrame
    \/ \E t \in Slots : BalanceRead(t) /\ ConcFrame

SpecEscrowConc == InitConc /\ [][NextConc]_vars

----------------------------------------------------------------------------
(* Registry requests in flight at the same time.                           *)
(*                                                                         *)
(* A handler of registry.py opens its own session, queries the agent's row *)
(* (the session keeps what it read), assigns the new values to the loaded  *)
(* object and commits, which writes the columns it assigned.  The handlers *)
(* are coroutines without an await, served by the one event loop that      *)
(* uvicorn.run starts.                                                     *)

ReportRequest(seller_name, amount, success) ==
    [op |-> "report", name |-> seller_name, amount |-> amount, success |-> success,
     rating |-> 0, transaction_id |-> 0, pc |-> "start", row |-> <<>>,
     result |-> "pending"]

RateRequest(transaction_id, rating) ==
    [op |-> "rate", name |-> None, amount |-> 0, success |-> TRUE,
     rating |-> rating, transaction_id |-> transaction_id, pc |-> "start",
     row |-> <<>>, result |-> "pending"]

RegisterRequest(name, url, capability, price) ==
    [op |-> "register", name |-> name, url |-> url, capability |-> capability,
     price |-> price, pc |-> "start", row |-> <<>>, result |-> "pending"]

SearchRequest(capability, limit, exclude, w, max_price, min_rating) ==
    [op |-> "search", capability |-> capability, limit |-> limit, exclude |-> exclude,
     weights |-> w, max_price |-> max_price, min_rating |-> min_rating,
     pc |-> "start", found |-> <<>>, result |-> "pending"]

\* Handlers run on threads: any of them may run at any point.
Scheduled_Threads(t) == TRUE

\* The event loop runs a coroutine until it awaits or returns; a handler has
\* no await, so none starts while another is between its query and its
\* commit.
Scheduled(t) == \A u \in Slots \ {t} : inflight[u].pc # "loaded"

\* db.commit(): the UPDATE sets the columns whose value the handler changed
\* on the object it had loaded.
Flushed(stored, loaded, assigned) ==
    [f \in DOMAIN stored |-> IF assigned[f] # loaded[f] THEN assigned[f] ELSE stored[f]]

\* report_transaction, lines 217-221: the session and the agent query
ReportLoad(t) ==
    LET q == inflight[t]
        r == ReportResult(agents, q.name)
    IN /\ q.op = "report" /\ q.pc = "start" /\ Scheduled(t)
       /\ inflight' = [inflight EXCEPT ![t] =
              IF r = "ok" THEN [q EXCEPT !.pc = "loaded", !.row = agents[q.name]]
              ELSE [q EXCEPT !.pc = "done", !.result = r]]
       /\ UNCHANGED <<agents, transactions, feedback>>

\* report_transaction, lines 224-246: the new row, the stats, the commit
ReportCommit(t) ==
    LET q == inflight[t] IN
    /\ q.op = "report" /\ q.pc = "loaded" /\ Scheduled(t)
    /\ transactions' = Append(transactions,
           NewTransaction(transactions, agents, "PM_Budget", q.name, q.amount, q.success))
    /\ agents' = [agents EXCEPT ![q.name] =
           Flushed(@, q.row, ReportedAgent(q.row, q.amount, q.success))]
    /\ inflight' = [inflight EXCEPT ![t].pc = "done", ![t].result = "ok",
                                    ![t].transaction_id = transactions'[Len(transactions')].id]
    /\ UNCHANGED feedback

\* rate_transaction, lines 346-354: the session and the two queries
RateLoad(t) ==
    LET q == inflight[t]
        r == RateResult(transactions, agents, q.transaction_id)
    IN /\ q.op = "rate" /\ q.pc = "start" /\ Scheduled(t)
       /\ inflight' = [inflight EXCEPT ![t] =
              IF r = "ok"
              THEN [q EXCEPT !.pc = "loaded",
                             !.name = transactions[q.transaction_id].seller_name,
                             !.row = agents[transactions[q.transaction_id].seller_name]]
              ELSE [q EXCEPT !.pc = "done", !.result = r]]
       /\ UNCHANGED <<agents, transactions, feedback>>

\* rate_transaction, lines 357-380: the feedback row, the aggregates, the commit
RateCommit(t) ==
    LET q == inflight[t] IN
    /\ q.op = "rate" /\ q.pc = "loaded" /\ Scheduled(t)
    /\ feedback' = Append(feedback,
           NewFeedback(feedback, q.transaction_id, q.name, q.rating))
    /\ agents' = [agents EXCEPT ![q.name] =
           Flushed(@, q.row, RatedAgent(q.row, q.rating))]
    /\ inflight' = [inflight EXCEPT ![t].pc = "done", ![t].result = "ok"]
    /\ UNCHANGED transactions

\* register_agent, lines 174-176: the request model, the session, the query
RegisterLoad(t) ==
    LET q == inflight[t]
        r == RegisterResult(q.price)
    IN /\ q.op = "register" /\ q.pc = "start" /\ Scheduled(t)
       /\ inflight' = [inflight EXCEPT ![t] =
              IF r # "ok" THEN [q EXCEPT !.pc = "done", !.result = r]
              ELSE [q EXCEPT !.pc = "loaded",
                             !.row = IF q.name \in DOMAIN agents
                                     THEN <<agents[q.name]>> ELSE <<>>]]
       /\ UNCHANGED <<agents, transactions, feedback>>

\* register_agent, lines 177-200: the update or the new row, and the commit;
\* the unique index on name refuses a second row of one name.
RegisterCommit(t) ==
    LET q == inflight[t] IN
    /\ q.op = "register" /\ q.pc = "loaded" /\ Scheduled(t)
    /\ IF q.row # <<>>
       THEN /\ agents' = [agents EXCEPT ![q.name] =
                   Flushed(@, q.row[1],
                           UpdatedAgent(q.row[1], q.url, q.capability, q.price))]
            /\ inflight' = [inflight EXCEPT ![t].pc = "done", ![t].result = "ok"]
       ELSE IF q.name \in DOMAIN agents
       THEN /\ inflight' = [inflight EXCEPT ![t].pc = "done",
                                            ![t].result = "IntegrityError"]
            /\ UNCHANGED agents
       ELSE /\ agents' = Put(agents, q.name,
                             NewAgent(agents, q.name, q.url, q.capability, q.price))
            /\ inflight' = [inflight EXCEPT ![t].pc = "done", ![t].result = "ok"]
    /\ UNCHANGED <<transactions, feedback>>

\* search_agents: it reads once and writes nothing
SearchRun(t) ==
    LET q == inflight[t]
        r == SearchResult(agents, q.capability, q.limit, q.weights, q.max_price,
                          q.min_rating)
    IN /\ q.op = "search" /\ q.pc = "start" /\ Scheduled(t)
       /\ inflight' = [inflight EXCEPT ![t].pc = "done", ![t].result = r,
              ![t].found = IF r = "ok"
                           THEN Ranking(agents, q.capability, q.limit, q.exclude,
                                        q.weights, q.max_price, q.min_rating)
                           ELSE <<>>]
       /\ UNCHANGED <<agents, transactions, feedback>>

\* The registry after two registrations and one successful job of each
\* agent, reported by its buyer.
ConcPrice == 3

ConcAgents ==
    LET none == [a \in {} |-> 0]
        one == Put(none, "ChartBot_Budget_v1",
                   NewAgent(none, "ChartBot_Budget_v1", "http://127.0.0.1:8001",
                            "generate_charts", ConcPrice))
        two == Put(one, "ChartBot_Pro_v1",
                   NewAgent(one, "ChartBot_Pro_v1", "http://127.0.0.1:8002",
                            "generate_charts", ConcPrice))
    IN [a \in DOMAIN two |-> ReportedAgent(two[a], ConcPrice, TRUE)]

ConcTransactions ==
    LET first == NewTransaction(<<>>, ConcAgents, "PM_Budget", "ChartBot_Budget_v1",
                                ConcPrice, TRUE)
    IN <<first,
         NewTransaction(<<first>>, ConcAgents, "PM_Budget", "ChartBot_Pro_v1",
                        ConcPrice, TRUE)>>

\* The requests that arrive together.
ConcRegistryRequests ==
    {ReportRequest(n, a, s) : n \in AgentNames, a \in ReportAmounts, s \in BOOLEAN}
    \cup {RateRequest(i, r) : i \in TransactionIds, r \in SubmittedRatings}
    \cup {RegisterRequest(n, "http://127.0.0.1:8003", "summarize_text", p) :
              n \in AgentNames \cup {"TextSummarize_v1"}, p \in {0, SummarizerPrice}}
    \cup {SearchRequest(c, 1, <<>>, w, Absent, Absent) :
              c \in Capabilities, w \in {Weights(3, 4, 2, 1), Weights(0, 0, 0, 0)}}

InitRegistryConc ==
    /\ escrows = [j \in {} |-> 0]
    /\ agent_wallets = [a \in SeededAgents |-> SeedBalance]
    /\ ledger = [j \in JobIds |->
           [debited |-> 0, lock |-> 0, paid |-> 0, refunded |-> 0, creates |-> 0]]
    /\ call = [op |-> "init", job |-> None, agent |-> None, amount |-> 0, result |-> "ok"]
    /\ ncalls = 4
    /\ agents = ConcAgents
    /\ transactions = ConcTransactions
    /\ feedback = <<>>
    /\ rcall = [op |-> "report", buyer_id |-> "PM_Budget",
                seller_name |-> "ChartBot_Pro_v1", amount |-> ConcPrice,
                success |-> TRUE, result |-> "ok", transaction_id |-> 2]
    /\ inflight \in [Slots -> ConcRegistryRequests]

RegistryConcFrame == UNCHANGED <<escrowVars, ncalls, rcall>>

NextRegistryConc ==
    \/ \E t \in Slots : ReportLoad(t) /\ RegistryConcFrame
    \/ \E t \in Slots : ReportCommit(t) /\ RegistryConcFrame
    \/ \E t \in Slots : RateLoad(t) /\ RegistryConcFrame
    \/ \E t \in Slots : RateCommit(t) /\ RegistryConcFrame
    \/ \E t \in Slots : RegisterLoad(t) /\ RegistryConcFrame
    \/ \E t \in Slots : RegisterCommit(t) /\ RegistryConcFrame
    \/ \E t \in Slots : SearchRun(t) /\ RegistryConcFrame

SpecRegistryConc == InitRegistryConc /\ [][NextRegistryConc]_vars

----------------------------------------------------------------------------
(* Properties of the Escrow Ledger *)

\* The step is a call of `op` (every call, failing or not, is counted).
IsCall(op) == ncalls' = ncalls + 1 /\ call'.op = op

\* No escrow state changes.
EscrowStateUnchanged == UNCHANGED <<escrows, agent_wallets, ledger>>

LockedJobs == {j \in DOMAIN escrows : escrows[j].status = "locked"}

\* C1: in every reachable state and for every job, a locked record means that
\* nothing has been credited to any wallet for that job, and a completed or
\* rejected_overcharge record means that what was paid to the seller plus
\* what was refunded to the buyer for that job is the locked amount.
C1_EscrowAccounting ==
    \A j \in DOMAIN escrows :
        /\ escrows[j].status = "locked" =>
               ledger[j].paid = 0 /\ ledger[j].refunded = 0
        /\ escrows[j].status \in {"completed", "rejected_overcharge"} =>
               ledger[j].paid + ledger[j].refunded = escrows[j].locked_amount

\* C2: a release of a locked escrow at a price above max_price ends with
\* OverchargeError, sets the status to rejected_overcharge, gives the buyer
\* back exactly what the lock took from the wallet, and changes nothing else:
\* no other wallet, no wallet entry for the seller, nothing paid to a seller,
\* no other field of the record.
C2_Overcharge ==
    [][ LET j == call'.job IN
        ( /\ IsCall("release_payment")
          /\ j \in DOMAIN escrows
          /\ escrows[j].status = "locked"
          /\ call'.amount > escrows[j].max_price )
        => /\ call'.result = "OverchargeError"
           /\ escrows' = [escrows EXCEPT ![j].status = "rejected_overcharge"]
           /\ agent_wallets' =
                  [agent_wallets EXCEPT ![escrows[j].buyer] = @ + ledger[j].lock]
           /\ ledger[j].lock = escrows[j].locked_amount
           /\ ledger'[j].paid = ledger[j].paid
      ]_vars

C2_Witness ==
    /\ call.op = "release_payment"
    /\ call.result = "OverchargeError"
    /\ call.agent # escrows[call.job].buyer
    /\ escrows[call.job].status = "rejected_overcharge"
    /\ escrows[call.job].max_price = 3
    /\ call.amount = 5
    /\ agent_wallets["PM_Budget"] = SeedBalance

\* C3: for every job, the total credited to sellers on behalf of the job is
\* at most the job's max_price, and a completed record has
\* actual_price <= max_price.
C3_SellerNeverOverpaid ==
    \A j \in DOMAIN escrows :
        /\ ledger[j].paid <= escrows[j].max_price
        /\ escrows[j].status = "completed" =>
               escrows[j].actual_price[1] <= escrows[j].max_price

\* C4: as long as no job id was locked twice, the wallets plus the amounts of
\* the escrows still locked add up to the seeded total, and once no escrow is
\* locked the debits equal the seller credits plus the buyer refunds.
DistinctJobIds == \A j \in JobIds : ledger[j].creates <= 1

SeedTotal == SeedBalance * Cardinality(SeededAgents)

WalletTotal == SumOver(agent_wallets, DOMAIN agent_wallets)

LockedTotal == SumOver([j \in LockedJobs |-> escrows[j].locked_amount], LockedJobs)

C4_WalletConservation ==
    DistinctJobIds =>
        /\ WalletTotal + LockedTotal = SeedTotal
        /\ LockedJobs = {} =>
               SumOver([j \in JobIds |-> ledger[j].debited], JobIds)
                   = SumOver([j \in JobIds |-> ledger[j].paid + ledger[j].refunded], JobIds)

C4_Witness ==
    /\ DistinctJobIds
    /\ DOMAIN escrows = JobIds
    /\ LockedJobs = {}
    /\ \E j \in JobIds : escrows[j].status = "completed" /\ ledger[j].paid > 0
    /\ \E j \in JobIds : escrows[j].status = "refunded" /\ ledger[j].refunded > 0

\* C5: a create_escrow for a job id that already has a record fails and
\* changes neither the record nor any wallet.
C5_DuplicateJobRejected ==
    [][ (IsCall("create_escrow") /\ call'.job \in DOMAIN escrows)
        => /\ call'.result # "ok"
           /\ escrows' = escrows
           /\ agent_wallets' = agent_wallets
      ]_vars

\* C6: a record is never removed, a locked record stays locked or moves to
\* completed, rejected_overcharge or refunded, and a record in one of those
\* three states never changes again.
C6_TerminalStatesFinal ==
    [][ \A j \in DOMAIN escrows :
            /\ j \in DOMAIN escrows'
            /\ escrows'[j].status \in Statuses
            /\ escrows[j].status # "locked" => escrows'[j] = escrows[j]
      ]_vars

\* C7: a create_escrow by a buyer whose balance (0 without a wallet) is below
\* max_price ends with InsufficientFundsError and changes no record and no
\* wallet.
C7_InsufficientFunds ==
    [][ (IsCall("create_escrow") /\ Balance(agent_wallets, call'.agent) < call'.amount)
        => /\ call'.result = "InsufficientFundsError"
           /\ EscrowStateUnchanged
      ]_vars

C7_Witness ==
    /\ call.op = "create_escrow"
    /\ call.result = "InsufficientFundsError"
    /\ call.agent \in DOMAIN agent_wallets
    /\ agent_wallets[call.agent] < call.amount
    /\ call.amount = 3

\* C8: a create_escrow that succeeds lowers the buyer's balance by exactly
\* max_price, leaves every other wallet as it was, and stores for the job a
\* locked record with max_price = locked_amount = max_price, no seller and no
\* actual price; no other job's record changes.
C8_CreateEscrow ==
    [][ LET j == call'.job
            b == call'.agent
            m == call'.amount
        IN (IsCall("create_escrow") /\ call'.result = "ok")
           => /\ b \in DOMAIN agent_wallets
              /\ DOMAIN agent_wallets' = DOMAIN agent_wallets
              /\ \A a \in DOMAIN agent_wallets :
                     agent_wallets'[a] = agent_wallets[a] - (IF a = b THEN m ELSE 0)
              /\ DOMAIN escrows' = DOMAIN escrows \cup {j}
              /\ escrows'[j].status = "locked"
              /\ escrows'[j].buyer = b
              /\ escrows'[j].max_price = m
              /\ escrows'[j].locked_amount = m
              /\ escrows'[j].seller = None
              /\ escrows'[j].actual_price = NoPrice
              /\ \A k \in DOMAIN escrows \ {j} : escrows'[k] = escrows[k]
      ]_vars

C8_Witness ==
    /\ call.op = "create_escrow"
    /\ call.result = "ok"
    /\ call.amount = 5
    /\ escrows[call.job].status = "locked"
    /\ agent_wallets[call.agent] = SeedBalance - 5

\* C9: a release for a job without a record ends with EscrowNotFoundError and
\* a release for a record that is not locked ends with ValueError (the
\* source's invalid-state error); neither changes a wallet or a record.
C9_ReleaseRejected ==
    [][ IsCall("release_payment")
        => /\ call'.job \notin DOMAIN escrows
                  => call'.result = "EscrowNotFoundError" /\ EscrowStateUnchanged
           /\ (call'.job \in DOMAIN escrows /\ escrows[call'.job].status # "locked")
                  => call'.result = "ValueError" /\ EscrowStateUnchanged
      ]_vars

C9_Witness ==
    /\ call.op = "release_payment"
    /\ call.result = "ValueError"
    /\ escrows[call.job].status = "completed"
    /\ call.amount <= escrows[call.job].max_price
    /\ call.amount > 0

\* C10: a release of a locked escrow at a price not above the locked amount
\* succeeds, credits the seller's wallet (created at 0 if missing) with the
\* price and then the buyer's wallet with locked amount minus price, changes
\* no other wallet, marks the record completed with the seller and the price,
\* and leaves the buyer with a net cost of exactly the price for that lock.
C10_Release ==
    [][ LET j == call'.job
            s == call'.agent
            a == call'.amount
        IN ( /\ IsCall("release_payment")
             /\ j \in DOMAIN escrows
             /\ escrows[j].status = "locked"
             /\ a <= escrows[j].locked_amount )
           => LET rec == escrows[j]
                  b == rec.buyer
                  L == rec.locked_amount
              IN /\ call'.result = "ok"
                 /\ DOMAIN agent_wallets' = DOMAIN agent_wallets \cup {s}
                 /\ \A x \in DOMAIN agent_wallets' :
                        agent_wallets'[x] = Balance(agent_wallets, x)
                                            + (IF x = s THEN a ELSE 0)
                                            + (IF x = b THEN L - a ELSE 0)
                 /\ escrows' = [escrows EXCEPT ![j] =
                        [buyer |-> b, seller |-> s, max_price |-> rec.max_price,
                         actual_price |-> <<a>>, locked_amount |-> L,
                         status |-> "completed"]]
                 /\ ledger'[j].paid - ledger[j].paid = a
                 /\ ledger'[j].refunded - ledger[j].refunded = L - a
                 /\ ledger[j].lock - (ledger'[j].refunded - ledger[j].refunded) = a
      ]_vars

C10_Witness ==
    /\ call.op = "release_payment"
    /\ call.result = "ok"
    /\ call.agent = "ChartBot_Budget_v1"
    /\ call.amount = 3
    /\ escrows[call.job].status = "completed"
    /\ escrows[call.job].max_price = 5
    /\ escrows[call.job].buyer = "PM_Budget"
    /\ agent_wallets["PM_Budget"] = SeedBalance - 3
    /\ Balance(agent_wallets, "ChartBot_Budget_v1") = 3

\* C11: a refund for a job without a record ends with EscrowNotFoundError
\* and changes nothing; on a locked record it credits the buyer with the
\* whole locked amount, changes no other wallet and sets the status to
\* refunded; on any other record it returns without error and changes
\* nothing; so right after any refund a second refund of the same job finds
\* nothing to do.
C11_Refund ==
    [][ LET j == call'.job IN
        IsCall("refund")
        => /\ j \notin DOMAIN escrows
                  => call'.result = "EscrowNotFoundError" /\ EscrowStateUnchanged
           /\ (j \in DOMAIN escrows /\ escrows[j].status = "locked")
                  => /\ call'.result = "ok"
                     /\ agent_wallets' = [agent_wallets EXCEPT
                            ![escrows[j].buyer] = @ + escrows[j].locked_amount]
                     /\ escrows' = [escrows EXCEPT ![j].status = "refunded"]
           /\ (j \in DOMAIN escrows /\ escrows[j].status # "locked")
                  => call'.result = "noop" /\ EscrowStateUnchanged
           /\ j \in DOMAIN escrows' => escrows'[j].status # "locked"
      ]_vars

C11_Witness ==
    /\ call.op = "refund"
    /\ call.result = "noop"
    /\ escrows[call.job].status = "refunded"
    /\ escrows[call.job].locked_amount = 5
    /\ agent_wallets[escrows[call.job].buyer] = SeedBalance

\* C12: get_balance returns the wallet's balance, 0 for an agent without a
\* wallet, and changes no wallet (it adds no entry) and no record.
C12_GetBalance ==
    [][ IsCall("get_balance")
        => /\ call'.result = "ok"
           /\ call'.agent \in DOMAIN agent_wallets
                  => call'.amount = agent_wallets[call'.agent]
           /\ call'.agent \notin DOMAIN agent_wallets => call'.amount = 0
           /\ agent_wallets' = agent_wallets
           /\ escrows' = escrows
      ]_vars

C12_Witness ==
    /\ call.op = "get_balance"
    /\ call.agent \notin DOMAIN agent_wallets
    /\ call.amount = 0
    /\ escrows # <<>>

\* C13: every wallet balance is at least 0 in every reachable state.
C13_NonNegativeBalances ==
    \A a \in DOMAIN agent_wallets : agent_wallets[a] >= 0

\* What two requests in flight leave behind
AllDone == \A t \in Slots : inflight[t].pc = "done"

\* The request in slot t changed the status of ConcJob.
Settled(t) ==
    /\ inflight[t].job = ConcJob
    /\ inflight[t].pc = "done"
    /\ \/ inflight[t].op = "release_payment"
          /\ inflight[t].result \in {"ok", "OverchargeError"}
       \/ inflight[t].op = "refund" /\ inflight[t].result = "ok"

SettlesConcJob(t) ==
    inflight[t].job = ConcJob /\ inflight[t].op \in {"release_payment", "refund"}

Withheld(j) == ledger[j].debited - ledger[j].paid - ledger[j].refunded

Held(j) ==
    IF j \in DOMAIN escrows /\ escrows[j].status = "locked"
    THEN escrows[j].locked_amount ELSE 0

\* Debited with no record, or credited with the record still locked.
Torn(j) == Withheld(j) # Held(j)

----------------------------------------------------------------------------
(* Properties of the Directory and the Reputation Ledger *)

\* The step is a registry request `op` (every request is counted).
IsRequest(op) == ncalls' = ncalls + 1 /\ rcall'.op = op

\* What request q would make of a row if it ran alone.
Applied(row, q) ==
    IF q.op = "report" THEN ReportedAgent(row, q.amount, q.success)
    ELSE RatedAgent(row, q.rating)

\* The agent a request is about.
TargetOf(q) ==
    IF q.op = "report" THEN q.name ELSE ConcTransactions[q.transaction_id].seller_name

\* C16: when two rating submissions and/or outcome reports for the same
\* agent are in flight at the same time, the agent's total_jobs ends 2
\* higher, and its row (successful_jobs, failed_jobs and rating included)
\* is what the two requests leave when run one after the other in one of
\* the two orders; the other agent's row is untouched.
C16_NoLostUpdate ==
    (AllDone /\ (\A t \in Slots : inflight[t].op \in {"report", "rate"})
             /\ TargetOf(inflight[1]) = TargetOf(inflight[2]))
    => LET a == TargetOf(inflight[1])
           before == ConcAgents[a]
       IN /\ agents[a].total_jobs = before.total_jobs + 2
          /\ \/ agents[a] = Applied(Applied(before, inflight[1]), inflight[2])
             \/ agents[a] = Applied(Applied(before, inflight[2]), inflight[1])
          /\ \A b \in DOMAIN agents \ {a} : agents[b] = ConcAgents[b]
          /\ Len(transactions) + Len(feedback) = Len(ConcTransactions) + 2

\* A failed job was reported while a rating of 1 was submitted for the same
\* agent, and the two orders would have left different ratings.
C16_Witness ==
    /\ AllDone
    /\ \E t, u \in Slots :
           /\ inflight[t].op = "report" /\ ~inflight[t].success
           /\ inflight[u].op = "rate" /\ inflight[u].rating = 1
           /\ TargetOf(inflight[t]) = TargetOf(inflight[u])
           /\ Applied(Applied(ConcAgents[TargetOf(inflight[t])], inflight[t]), inflight[u]).rating
              # Applied(Applied(ConcAgents[TargetOf(inflight[t])], inflight[u]), inflight[t]).rating
    /\ agents["ChartBot_Budget_v1"].failed_jobs = 2

C18_RegisterRejectsPrice ==
    [][ (IsRequest("register") /\ rcall'.price <= 0)
        => /\ rcall'.result = "ValidationError"
           /\ UNCHANGED <<agents, transactions, feedback>>
      ]_vars

C18_Witness ==
    /\ rcall.op = "register"
    /\ rcall.result = "ValidationError"
    /\ rcall.price = 0
    /\ rcall.name \in DOMAIN agents
    /\ agents[rcall.name].url # rcall.url
    /\ agents[rcall.name].capability # rcall.capability

\* C19: for every agent, total_jobs = successful_jobs + failed_jobs.
C19_JobCounts ==
    \A n \in DOMAIN agents :
        agents[n].total_jobs = agents[n].successful_jobs + agents[n].failed_jobs

C19_Witness ==
    /\ feedback # <<>>
    /\ \E n \in DOMAIN agents :
           /\ agents[n].total_jobs = 3
           /\ agents[n].successful_jobs >= 1
           /\ agents[n].failed_jobs >= 1

\* C20: a transaction report for a known seller adds 1 to total_jobs; a
\* successful one adds 1 to successful_jobs and the amount to total_earned
\* and keeps the rating; a failed one adds 1 to failed_jobs, keeps
\* total_earned and sets the rating to max(1.0, rating - 0.1); nothing else
\* in the seller's row and no other row changes.
C20_ReportOutcome ==
    [][ LET n == rcall'.seller_name IN
        (IsRequest("report") /\ n \in DOMAIN agents)
        => LET old == agents[n]
               ok == rcall'.success
               less == FracSub(old.rating, Penalty)
           IN /\ rcall'.result = "ok"
              /\ agents' = [agents EXCEPT ![n] =
                     [id |-> old.id, name |-> old.name, url |-> old.url,
                      capability |-> old.capability, price |-> old.price,
                      avg_response_time |-> old.avg_response_time,
                      total_jobs |-> old.total_jobs + 1,
                      successful_jobs |-> old.successful_jobs + (IF ok THEN 1 ELSE 0),
                      failed_jobs |-> old.failed_jobs + (IF ok THEN 0 ELSE 1),
                      total_earned |-> old.total_earned + (IF ok THEN rcall'.amount ELSE 0),
                      rating |-> IF ok THEN old.rating
                                 ELSE IF less.n >= less.d THEN less ELSE FracOf(1)]]
      ]_vars

\* A failed report that met the floor: the rating was below 1.1 before it.
C20_Witness ==
    /\ rcall.op = "report"
    /\ rcall.result = "ok"
    /\ ~rcall.success
    /\ agents[rcall.seller_name].rating = FracOf(1)
    /\ agents[rcall.seller_name].failed_jobs = AgedReports + 1
    /\ \E n \in DOMAIN agents : agents[n].total_earned > 0

\* C21: a rating r for an existing transaction whose seller has a row sets
\* the seller's rating to (old rating * old total_jobs + r) / (old
\* total_jobs + 1), adds 1 to total_jobs, adds 1 to successful_jobs when
\* r >= 3 and to failed_jobs otherwise, leaves the rest of the row and every
\* other row alone, and appends exactly one feedback row, for that
\* transaction id.
C21_SubmitRating ==
    [][ LET t == rcall'.transaction_id IN
        (IsRequest("rate") /\ t \in DOMAIN transactions
                           /\ transactions[t].seller_name \in DOMAIN agents)
        => LET n == transactions[t].seller_name
               old == agents[n]
               r == rcall'.rating
           IN /\ rcall'.result = "ok"
              /\ agents' = [agents EXCEPT ![n] =
                     [old EXCEPT
                         !.rating = Frac(old.rating.n * old.total_jobs + r * old.rating.d,
                                         old.rating.d * (old.total_jobs + 1)),
                         !.total_jobs = old.total_jobs + 1,
                         !.successful_jobs = @ + (IF r >= 3 THEN 1 ELSE 0),
                         !.failed_jobs = @ + (IF r >= 3 THEN 0 ELSE 1)]]
              /\ Len(feedback') = Len(feedback) + 1
              /\ SubSeq(feedback', 1, Len(feedback)) = feedback
              /\ feedback'[Len(feedback')].transaction_id = t
              /\ feedback'[Len(feedback')].rating = r
              /\ transactions' = transactions
      ]_vars

\* A rating of 1 for a seller whose only job so far was a failed one: the
\* weighted mean is (4.9 * 1 + 1) / 2.
C21_Witness ==
    /\ rcall.op = "rate"
    /\ rcall.result = "ok"
    /\ rcall.rating = 1
    /\ Len(feedback) = 1
    /\ \E n \in DOMAIN agents :
           /\ agents[n].total_jobs = 2
           /\ agents[n].failed_jobs = 2
           /\ agents[n].rating = Frac(59, 20)

\* C22: a request that ends in NotFound changes nothing: a report for a
\* seller without a row appends no transaction and changes no agent; a
\* rating for a transaction id without a row (or whose seller has no row)
\* appends no feedback and changes no agent.
C22_NotFoundNoChange ==
    [][ /\ (IsRequest("report") /\ rcall'.seller_name \notin DOMAIN agents)
           => (rcall'.result = "NotFound"
               /\ UNCHANGED <<agents, transactions, feedback>>)
        /\ (IsRequest("rate")
            /\ (rcall'.transaction_id \notin DOMAIN transactions
                \/ transactions[rcall'.transaction_id].seller_name \notin DOMAIN agents))
           => (rcall'.result = "NotFound"
               /\ UNCHANGED <<agents, transactions, feedback>>)
      ]_vars

\* The fourth request, a rating for transaction 2, was refused while only
\* transaction 1 and its seller exist.
C22_Witness ==
    /\ rcall.op = "rate"
    /\ rcall.result = "NotFound"
    /\ rcall.transaction_id = 2
    /\ Len(transactions) = 1
    /\ feedback = <<>>
    /\ Cardinality(DOMAIN agents) = 1
    /\ ncalls = 4

\* C23: every agent's rating is at least 1.0 and at most 5.0 in every
\* reachable state.
C23_RatingRange ==
    \A n \in DOMAIN agents :
        /\ FracLeq(FracOf(MinRating), agents[n].rating)
        /\ FracLeq(agents[n].rating, FracOf(DefaultRating))

\* A rating of 5 lifted a seller off the floor and a failed report brought
\* it back to 1.0, while a newly registered agent stands at 5.0.
C23_Witness ==
    /\ rcall.op = "report"
    /\ ~rcall.success
    /\ feedback # <<>>
    /\ feedback[1].rating = 5
    /\ agents[AgedSeller].rating = FracOf(MinRating)
    /\ agents[AgedSeller].total_jobs = AgedReports + 2

\* C24: one hire is one reputation update: in every state each agent's
\* total_jobs is the number of transactions reported for it, also after
\* such a transaction has been rated.
C24_OneUpdatePerHire ==
    \A n \in DOMAIN agents :
        agents[n].total_jobs =
            Cardinality({i \in DOMAIN transactions : transactions[i].seller_name = n})

\* The request in slot t is answered by this step.
Answered(t) == inflight[t].pc # "done" /\ inflight'[t].pc = "done"

\* C25: the journal only grows at its end and its ids rise: no step of a
\* registration, report, rating or search changes or removes a transaction
\* row; a report that succeeds appends exactly one row and returns its id,
\* which is greater than every id in the journal before it (so two reports
\* in flight together never get the same id); nothing else appends.
C25_JournalAppendOnly ==
    [][ /\ Len(transactions') >= Len(transactions)
        /\ SubSeq(transactions', 1, Len(transactions)) = transactions
        /\ \A i, j \in DOMAIN transactions' :
               i < j => transactions'[i].id < transactions'[j].id
        /\ \A t \in Slots :
               (Answered(t) /\ inflight'[t].op = "report" /\ inflight'[t].result = "ok")
               => /\ Len(transactions') = Len(transactions) + 1
                  /\ transactions'[Len(transactions')].id = inflight'[t].transaction_id
                  /\ \A i \in DOMAIN transactions :
                         transactions[i].id < inflight'[t].transaction_id
        /\ (\A t \in Slots :
               ~(Answered(t) /\ inflight'[t].op = "report" /\ inflight'[t].result = "ok"))
           => transactions' = transactions
      ]_vars

\* Two reports that were in flight together have been answered with the ids
\* 3 and 4.
C25_Witness ==
    /\ AllDone
    /\ \A t \in Slots : inflight[t].op = "report" /\ inflight[t].result = "ok"
    /\ {inflight[t].transaction_id : t \in Slots} = {3, 4}
    /\ Len(transactions) = 4

\* The latest request was a search that returned a list.
SearchReturned == rcall.op = "search" /\ rcall.result = "ok"

\* The names a search returned, in order, and as a set.
FoundNames == [i \in DOMAIN rcall.found |-> rcall.found[i].name]

FoundSet == {rcall.found[i].name : i \in DOMAIN rcall.found}

\* The agents that pass the filters of the latest search, and those of them
\* that the request does not exclude.
Filtered ==
    {n \in DOMAIN agents :
        /\ agents[n].capability = rcall.capability
        /\ rcall.max_price.given => agents[n].price <= rcall.max_price.value
        /\ rcall.min_rating.given =>
               agents[n].rating.n >= rcall.min_rating.value * agents[n].rating.d}

Excluded == {rcall.exclude[i].text : i \in DOMAIN rcall.exclude}

Survivors == Filtered \ Excluded

\* C26: every agent a search returns has the requested capability, a price
\* of at most max_price when that is given, a rating of at least min_rating
\* when that is given, and a name the request does not exclude; no agent is
\* returned twice and at most `limit` agents are returned.
C26_SearchFilters ==
    SearchReturned
    => /\ \A i \in DOMAIN rcall.found :
              LET row == agents[rcall.found[i].name] IN
              /\ row.capability = rcall.capability
              /\ rcall.max_price.given => row.price <= rcall.max_price.value
              /\ rcall.min_rating.given =>
                     row.rating.n >= rcall.min_rating.value * row.rating.d
              /\ row.name \notin Excluded
       /\ \A i, j \in DOMAIN rcall.found :
              rcall.found[i].name = rcall.found[j].name => i = j
       /\ Len(rcall.found) <= rcall.limit

\* A search capped at 0.03 with one seller excluded and a limit of 1: a
\* dearer seller of the capability and the excluded one stay out.
C26_Witness ==
    /\ SearchReturned
    /\ rcall.max_price.given
    /\ rcall.limit = 1
    /\ Len(rcall.found) = 1
    /\ Excluded \cap Filtered # {}
    /\ \E n \in DOMAIN agents :
           agents[n].capability = rcall.capability /\ agents[n].price > rcall.max_price.value

\* The largest price and response time among the agents that pass the
\* filters, and the score the latest search gives an agent.
LargestOf(S, field) ==
    IF S = {} THEN 0
    ELSE CHOOSE v \in {agents[n][field] : n \in S} :
             \A n \in S : agents[n][field] <= v

ScoreOf(n) ==
    calculate_agent_score(agents[n], LargestOf(Filtered, "price"),
                          LargestOf(Filtered, "avg_response_time"), Prefs(rcall.weights))

\* Agent a is preferred to agent b: a higher score, or the same score and a
\* lower price.
Preferred(a, b) ==
    \/ FracLess(ScoreOf(b), ScoreOf(a))
    \/ ScoreOf(a) = ScoreOf(b) /\ agents[a].price < agents[b].price

\* C27: a search returns the surviving candidates most preferred first: no
\* returned agent is preferred to one returned before it, the list holds
\* min(limit, number of survivors) of the survivors, and no survivor left
\* out is preferred to a returned one.
C27_SearchOrder ==
    SearchReturned
    => /\ \A i, j \in DOMAIN rcall.found :
              i < j => ~Preferred(rcall.found[j].name, rcall.found[i].name)
       /\ \A i \in DOMAIN rcall.found :
              rcall.found[i].score = ScoreOf(rcall.found[i].name)
       /\ FoundSet \subseteq Survivors
       /\ Len(rcall.found) = IF rcall.limit < Cardinality(Survivors)
                             THEN rcall.limit ELSE Cardinality(Survivors)
       /\ \A o \in Survivors \ FoundSet :
              \A i \in DOMAIN rcall.found : ~Preferred(o, rcall.found[i].name)

\* Three survivors and a limit of 2: the first beats the second on price
\* alone, and both beat the omitted third, which is cheaper than the
\* second, on score.
C27_Witness ==
    /\ SearchReturned
    /\ rcall.limit = 2
    /\ Len(rcall.found) = 2
    /\ rcall.found[1].score = rcall.found[2].score
    /\ rcall.found[1].price < rcall.found[2].price
    /\ \E o \in Survivors \ FoundSet :
           /\ FracLess(ScoreOf(o), rcall.found[2].score)
           /\ agents[o].price < rcall.found[2].price

\* C28: a search for a capability that no registered agent has fails with
\* NotFound (the limit being within the 1..20 the endpoint admits), and a
\* search, failed or not, changes no agent, transaction or feedback row.
C28_SearchNotFound ==
    [][ IsRequest("search")
        => /\ UNCHANGED <<agents, transactions, feedback>>
           /\ (rcall'.limit \in 1..20
               /\ \A n \in DOMAIN agents : agents[n].capability # rcall'.capability)
              => rcall'.result = "NotFound"
      ]_vars

\* Two candidates differ in nothing that the score reads but the price.
DifferOnlyInPrice(a, b) ==
    /\ agents[a].price < agents[b].price
    /\ agents[a].rating = agents[b].rating
    /\ agents[a].total_jobs = agents[b].total_jobs
    /\ agents[a].successful_jobs = agents[b].successful_jobs
    /\ agents[a].avg_response_time = agents[b].avg_response_time

\* C29: of two candidates of one search that differ only in price, the
\* cheaper scores at least as high when price_weight > 0 and is never
\* returned behind the dearer, nor left out when the dearer is returned.
C29_PriceMonotone ==
    SearchReturned
    => \A a, b \in Survivors :
           DifferOnlyInPrice(a, b)
           => /\ rcall.weights.price_weight > 0 => FracLeq(ScoreOf(b), ScoreOf(a))
              /\ b \in FoundSet => a \in FoundSet
              /\ \A i, j \in DOMAIN rcall.found :
                     (rcall.found[i].name = a /\ rcall.found[j].name = b) => i < j

\* Weights 0.8, 0.1, 0.1, 0.0: the seller at 0.03 is returned first and the
\* one at 0.05, the same in all else, second.
C29_Witness ==
    /\ SearchReturned
    /\ rcall.weights = Weights(8, 1, 1, 0)
    /\ Len(rcall.found) = 2
    /\ rcall.found[1].price = 3
    /\ rcall.found[2].price = 5
    /\ DifferOnlyInPrice(rcall.found[1].name, rcall.found[2].name)
    /\ FracLess(rcall.found[2].score, rcall.found[1].score)

\* C30: the reliability sub-score is success_rate / 100: 1 for an agent
\* without jobs, successful_jobs / total_jobs otherwise (0 when none of its
\* jobs succeeded); a search that weighs reliability alone scores each agent
\* by exactly that.
C30_Reliability ==
    SearchReturned
    => \A i \in DOMAIN rcall.found :
           LET row == agents[rcall.found[i].name]
               rate == IF row.total_jobs = 0 THEN FracOf(1)
                       ELSE Frac(row.successful_jobs, row.total_jobs)
           IN /\ reliability_score(row) = rate
              /\ rcall.weights = Weights(0, 0, 0, 10) => rcall.found[i].score = rate

\* The weights of a request, each multiplied by k; a query parameter above
\* 1.0 does not pass the validation of the endpoint.
ScaledWeights(w, k) ==
    Weights(w.price_weight * k, w.quality_weight * k, w.speed_weight * k,
            w.reliability_weight * k)

WeightsAccepted(w) ==
    \A f \in DOMAIN w : w[f] >= 0 /\ w[f] <= 10

ScaleFactors == {2, 3}

\* C31: a search whose weights sum to nothing is rejected and returns no
\* agent; otherwise the weights in use are the given ones divided by their
\* sum, they add up to 1, every score of a returned agent is between 0 and
\* 1, and the same request with all four weights multiplied by one positive
\* factor returns the same agents in the same order with the same scores.
C31_WeightsNormalized ==
    rcall.op = "search"
    => LET w == rcall.weights
           p == Prefs(w)
       IN /\ WeightTotal(w) <= 0
                => rcall.result \in {"InvalidInput", "ValidationError"} /\ rcall.found = <<>>
          /\ rcall.result = "InvalidInput" => WeightTotal(w) <= 0
          /\ WeightTotal(w) > 0
                => /\ FracAdd(FracAdd(p.price_weight, p.quality_weight),
                              FracAdd(p.speed_weight, p.reliability_weight)) = FracOf(1)
                   /\ \A f \in DOMAIN p :
                          /\ FracLeq(FracOf(0), p[f])
                          /\ p[f].n * WeightTotal(w) = w[f] * p[f].d
          /\ SearchReturned
                => /\ \A i \in DOMAIN rcall.found :
                          /\ FracLeq(FracOf(0), rcall.found[i].score)
                          /\ FracLeq(rcall.found[i].score, FracOf(1))
                   /\ \A k \in ScaleFactors :
                          /\ Prefs(ScaledWeights(w, k)) = p
                          /\ WeightsAccepted(ScaledWeights(w, k))
                                => Ranking(agents, rcall.capability, rcall.limit,
                                           rcall.exclude, ScaledWeights(w, k),
                                           rcall.max_price, rcall.min_rating) = rcall.found

\* Weights 0.6, 0.8, 0.4, 0.2 add up to 2.0: the search returns two agents
\* with different scores, as it does for 0.3, 0.4, 0.2, 0.1.
C31_Witness ==
    /\ SearchReturned
    /\ rcall.weights = Weights(6, 8, 4, 2)
    /\ Len(rcall.found) = 2
    /\ FracLess(rcall.found[2].score, rcall.found[1].score)
    /\ Ranking(agents, rcall.capability, rcall.limit, rcall.exclude, Weights(3, 4, 2, 1),
               rcall.max_price, rcall.min_rating) = rcall.found

----------------------------------------------------------------------------
(* Project manager: softmax_select_agent                                   *)
(*                                                                         *)
(* The candidates are the agents of a search response, as the registry     *)
(* serializes them.  Scores are exact fractions; math.exp is computed in   *)
(* fixed point.  The one call of random.choices draws one number u in      *)
(* [0, 1), which is an input of the selection here.                        *)

\* max(c['price'] for c in candidates), max(c.get('avg_response_time', 1.0) ...)
RECURSIVE MaxField(_, _)
MaxField(candidates, field) ==
    IF candidates = <<>> THEN 0
    ELSE LET m == MaxField(Tail(candidates), field)
             v == Head(candidates)[field]
         IN IF v > m THEN v ELSE m

\* (max_price - agent['price']) / max_price if max_price > 0 else 0
lottery_price_score(agent, max_price) ==
    IF max_price > 0 THEN Frac(max_price - agent.price, max_price) ELSE FracOf(0)

\* agent.get('rating', 3.0) / 5.0; every agent of a search response has a rating
lottery_quality_score(agent) == FracMul(agent.rating, Frac(1, 5))

\* (max_latency - agent.get('avg_response_time', 0.5)) / max_latency if max_latency > 0 else 0
lottery_speed_score(agent, max_latency) ==
    IF max_latency > 0 THEN Frac(max_latency - agent.avg_response_time, max_latency)
    ELSE FracOf(0)

\* The weighted total; the weights are in tenths and are used as given.
\* Only the keys 'price', 'quality' and 'speed' are read.
final_score(agent, candidates, weights) ==
    FracAdd(FracAdd(FracMul(lottery_price_score(agent, MaxField(candidates, "price")),
                            Frac(weights.price, 10)),
                    FracMul(lottery_quality_score(agent), Frac(weights.quality, 10))),
            FracMul(lottery_speed_score(agent, MaxField(candidates, "avg_response_time")),
                    Frac(weights.speed, 10)))

scores(candidates, weights) ==
    [i \in DOMAIN candidates |-> final_score(candidates[i], candidates, weights)]

\* math.exp in fixed point: ExpScale stands for 1.0.
ExpScale == 100000

\* The series 1 + x + x^2/2! + ... for x = n/d >= 0, term by term until a
\* term is below the resolution.
RECURSIVE ExpTerms(_, _, _, _)
ExpTerms(term, n, d, k) ==
    IF term = 0 THEN 0
    ELSE term + ExpTerms((term * n) \div (d * k), n, d, k + 1)

Exp(x) == ExpTerms(ExpScale, x.n, x.d, 1)

\* s / temperature
FracDiv(x, y) == Frac(x.n * y.d, x.d * y.n)

\* exp_scores = [math.exp(s / temperature) for s in scores].  math.exp
\* raises OverflowError above 709.78; no score and temperature here come
\* near it, so the handler of lines 119-122 is never entered.
exp_scores(candidates, weights, temperature) ==
    [i \in DOMAIN candidates |-> Exp(FracDiv(scores(candidates, weights)[i], temperature))]

RECURSIVE SumSeq(_)
SumSeq(s) == IF s = <<>> THEN 0 ELSE Head(s) + SumSeq(Tail(s))

\* Probabilities that divide by the largest exponential, not by their sum.
probabilities_OverMax(candidates, weights, temperature) ==
    LET e == exp_scores(candidates, weights, temperature)
        largest == CHOOSE m \in {e[i] : i \in DOMAIN e} : \A i \in DOMAIN e : e[i] <= m
    IN [i \in DOMAIN candidates |-> [num |-> e[i], den |-> largest]]

\* A probability is kept as the pair it is computed from: num / den.
\* probabilities = [s / total_exp for s in exp_scores], or 1/N each when
\* total_exp is 0.
probabilities(candidates, weights, temperature) ==
    LET e == exp_scores(candidates, weights, temperature)
        total_exp == SumSeq(e)
    IN IF total_exp = 0
       THEN [i \in DOMAIN candidates |-> [num |-> 1, den |-> Len(candidates)]]
       ELSE [i \in DOMAIN candidates |-> [num |-> e[i], den |-> total_exp]]

\* random() returns a multiple of 1 / DrawSteps below 1.
DrawSteps == 4

Draws == 0 .. (DrawSteps - 1)

\* random.choices(candidates, weights=probabilities, k=1)[0]: the cumulative
\* weights are bisected at u * total with hi = N - 1, which finds the first
\* candidate whose cumulative weight is above u * total.
Chosen(p, u) ==
    LET cum(i) == SumSeq([j \in 1 .. i |-> p[j].num])
    IN 1 + Cardinality({i \in 1 .. (Len(p) - 1) : cum(i) * DrawSteps <= u * p[1].den})

\* What softmax_select_agent returns when it has no candidate.
NoAgent == [name |-> None]

\* A selection that draws a number even for a single candidate.
softmax_select_agent_AlwaysDraws(candidates, weights, temperature, u) ==
    IF candidates = <<>>
    THEN [scores |-> <<>>, probabilities |-> <<>>, drawn |-> <<>>, selected |-> NoAgent]
    ELSE LET p == probabilities(candidates, weights, temperature) IN
         [scores |-> scores(candidates, weights), probabilities |-> p, drawn |-> <<u>>,
          selected |-> candidates[Chosen(p, u)]]

\* The selection with its scores and probabilities and the numbers it drew.
softmax_select_agent(candidates, weights, temperature, u) ==
    IF candidates = <<>>
    THEN [scores |-> <<>>, probabilities |-> <<>>, drawn |-> <<>>, selected |-> NoAgent]
    ELSE IF Len(candidates) = 1
    THEN [scores |-> <<>>, probabilities |-> <<>>, drawn |-> <<>>,
          selected |-> candidates[1]]
    ELSE LET p == probabilities(candidates, weights, temperature) IN
         [scores |-> scores(candidates, weights), probabilities |-> p, drawn |-> <<u>>,
          selected |-> candidates[Chosen(p, u)]]

\* One call of softmax_select_agent: slot t holds its arguments.
Select(t) ==
    LET q == inflight[t] IN
    /\ q.op = "select"
    /\ q.pc = "start"
    /\ \E u \in Draws :
           LET r == softmax_select_agent(q.candidates, q.weights, q.temperature, u) IN
           /\ Len(r.drawn) = 0 => u = 0
           /\ inflight' = [inflight EXCEPT ![t] =
                  [q EXCEPT !.pc = "done", !.scores = r.scores,
                            !.probabilities = r.probabilities, !.drawn = r.drawn,
                            !.selected = r.selected]]
    /\ UNCHANGED <<escrowVars, registryVars, ncalls>>

\* An agent of a search response: the row of a seller of charts that has
\* registered at a price and has the given history.
SellerCard(name, price, history) ==
    WithHistory(Registered(Journal([a \in {} |-> 0], <<>>, <<>>), name,
                           "http://127.0.0.1:8001", "generate_charts", price),
                name, history).agents[name]

\* The same agent as a directory would list it that admits free work and
\* measures no latency.
FreeCard(name) ==
    [SellerCard(name, 3, "new") EXCEPT !.price = 0, !.avg_response_time = 0]

BudgetCards ==
    {SellerCard("ChartBot_Budget_v1", p, h) : p \in {3, 5}, h \in {"new", "failed"}}
        \cup {FreeCard("ChartBot_Budget_v1")}

ProCards ==
    {SellerCard("ChartBot_Pro_v1", 5, h) : h \in {"new", "mixed"}}
        \cup {FreeCard("ChartBot_Pro_v1")}

SummarizerCards == {SellerCard("TextSummarize_v1", SummarizerPrice, "new")}

Cards == BudgetCards \cup ProCards \cup SummarizerCards

\* Candidate lists: none, one, two in either order, three.
CandidateLists ==
    {<<>>} \cup {<<c>> : c \in Cards}
           \cup {<<a, b>> \in Cards \X Cards : a.name # b.name}
           \cup {<<a, b, c>> : a \in BudgetCards, b \in ProCards, c \in SummarizerCards}

\* SELECTION_WEIGHTS of the balanced, budget and quality strategies, and the
\* default weights of the directory; all in tenths.
LotteryWeights(p, q, s, r) == [price |-> p, quality |-> q, speed |-> s, reliability |-> r]

SelectionWeights ==
    {LotteryWeights(4, 4, 2, 0), LotteryWeights(8, 1, 1, 0), LotteryWeights(1, 8, 1, 0),
     LotteryWeights(3, 4, 2, 1)}

\* SELECTION_TEMPERATURE: 0.5 and 1.0 as configured, and 2.0
Temperatures == {Frac(1, 2), FracOf(1), FracOf(2)}

SelectRequest(candidates, weights, temperature) ==
    [op |-> "select", pc |-> "start", candidates |-> candidates, weights |-> weights,
     temperature |-> temperature, scores |-> <<>>, probabilities |-> <<>>,
     drawn |-> <<>>, selected |-> NoAgent]

\* Two calls with the same arguments, each with a draw of its own.
InitLottery ==
    /\ escrows = [j \in {} |-> 0]
    /\ agent_wallets = [a \in SeededAgents |-> SeedBalance]
    /\ ledger = [j \in JobIds |->
           [debited |-> 0, lock |-> 0, paid |-> 0, refunded |-> 0, creates |-> 0]]
    /\ call = [op |-> "init", job |-> None, agent |-> None, amount |-> 0, result |-> "ok"]
    /\ ncalls = 0
    /\ agents = [a \in {} |-> 0]
    /\ transactions = <<>>
    /\ feedback = <<>>
    /\ rcall = [op |-> "init", result |-> "ok"]
    /\ \E c \in CandidateLists, w \in SelectionWeights, T \in Temperatures :
           inflight = [t \in Slots |-> SelectRequest(c, w, T)]

LotteryNext == \E t \in Slots : Select(t)

SpecLottery == InitLottery /\ [][LotteryNext]_vars

----------------------------------------------------------------------------
(* Properties of the Selection Lottery *)

Selected(t) == inflight[t].op = "select" /\ inflight[t].pc = "done"

DirectoryWeights(w) == Weights(w.price, w.quality, w.speed, w.reliability)

\* The score calculate_agent_score gives candidate i of a list under the
\* lottery's weights.
DirectoryScore(candidates, i, w) ==
    calculate_agent_score(candidates[i], MaxField(candidates, "price"),
                          MaxField(candidates, "avg_response_time"),
                          Prefs(DirectoryWeights(w)))

\* C33: the score the lottery gives a candidate is the score
\* calculate_agent_score gives it for the same candidates and weights, and
\* the two order any two candidates the same way.
C33_LotteryScore ==
    \A t \in Slots :
        (Selected(t) /\ Len(inflight[t].candidates) > 1)
        => LET q == inflight[t] IN
           /\ \A i \in DOMAIN q.candidates :
                  q.scores[i] = DirectoryScore(q.candidates, i, q.weights)
           /\ \A i, j \in DOMAIN q.candidates :
                  FracLess(q.scores[i], q.scores[j])
                  <=> FracLess(DirectoryScore(q.candidates, i, q.weights),
                               DirectoryScore(q.candidates, j, q.weights))

\* a / b <= c / d for b, d > 0 and a, c >= 0, by continued fractions: no
\* product is formed.
RECURSIVE RatioLeq(_, _, _, _)
RatioLeq(a, b, c, d) ==
    IF a \div b # c \div d THEN a \div b < c \div d
    ELSE IF a % b = 0 THEN TRUE
    ELSE IF c % d = 0 THEN FALSE
    ELSE RatioLeq(d, c % d, b, a % b)

\* The candidates with the highest score of a selection.
TopScorers(q) ==
    {i \in DOMAIN q.scores : \A j \in DOMAIN q.scores : FracLeq(q.scores[j], q.scores[i])}

----------------------------------------------------------------------------
(* Project manager: execute_task and hire_specialist                       *)
(*                                                                         *)
(* A task hires a summarizer and then a chart seller.  Each hire is cut at *)
(* its HTTP calls: the search (and the relaxed search of the budget and    *)
(* quality strategies), the call of the seller, the report to the          *)
(* registry.  The seller is an external server: what it answers is an      *)
(* input.  The registry answers each call at once.                         *)

\* AGENT_NAME, PM_STRATEGY, SELECTION_WEIGHTS and SELECTION_TEMPERATURE of
\* the three strategies of the command line.
Strategies ==
    {[agent_name |-> "PM_Balanced", strategy |-> "balanced",
      weights |-> LotteryWeights(4, 4, 2, 0), temperature |-> FracOf(1)],
     [agent_name |-> "PM_Budget", strategy |-> "cost_minimization",
      weights |-> LotteryWeights(8, 1, 1, 0), temperature |-> Frac(1, 2)],
     [agent_name |-> "PM_Quality", strategy |-> "quality_maximization",
      weights |-> LotteryWeights(1, 8, 1, 0), temperature |-> Frac(1, 2)]}

\* params["max_price"] = 0.04, params["min_rating"] = 4.0
StrictFilters(strategy) ==
    CASE strategy = "cost_minimization" -> <<Given(4), Absent>>
      [] strategy = "quality_maximization" -> <<Absent, Given(4)>>
      [] OTHER -> <<Absent, Absent>>

\* The query parameters the project manager leaves at their defaults.
DefaultLimit == 5

DefaultWeights == Weights(3, 4, 2, 1)

\* agents = search_response.json() when the status is 200, else []
SearchResponse(tbl, capability, filters) ==
    IF SearchResult(tbl, capability, DefaultLimit, DefaultWeights,
                    filters[1], filters[2]) = "ok"
    THEN LET found == Ranking(tbl, capability, DefaultLimit, <<>>, DefaultWeights,
                              filters[1], filters[2])
         IN [i \in DOMAIN found |-> tbl[found[i].name]]
    ELSE <<>>

\* The "result" of a seller's answer, by what the validators look at: its
\* type, its length, a blank among its first 50 characters, a key 'error'.
NoResult == [kind |-> "none", len |-> 0, blank |-> FALSE, error |-> FALSE]

Text(len, blank) == [kind |-> "str", len |-> len, blank |-> blank, error |-> FALSE]

ErrorDict == [kind |-> "dict", len |-> 1, blank |-> FALSE, error |-> TRUE]

Results == {NoResult, Text(5, FALSE), Text(200, TRUE), Text(200, FALSE), ErrorDict}

\* What the seller's server answers: 200 with a result, 422 for a body it
\* does not accept, 500; status 0 stands for no answer (requests raises).
NoResponse == [http |-> 0, result |-> NoResult]

SellerResponses ==
    {[http |-> 200, result |-> r] : r \in Results}
        \cup {[http |-> h, result |-> NoResult] : h \in {0, 422, 500}}

validate_chart_result(result) ==
    IF result.kind = "none" \/ result.len = 0 THEN FALSE
    ELSE IF result.kind = "dict" /\ result.error THEN FALSE
    ELSE IF result.kind = "str"
    THEN IF result.len < 100 THEN FALSE
         ELSE IF result.blank THEN FALSE
         ELSE TRUE
    ELSE TRUE

validate_summary_result(result) ==
    IF result.kind = "none" \/ result.len = 0 THEN FALSE
    ELSE IF result.kind = "str"
    THEN IF result.len < 10 THEN FALSE ELSE TRUE
    ELSE FALSE

\* is_valid, by the capability that was hired
Validated(capability, result) ==
    CASE capability = "generate_charts" -> validate_chart_result(result)
      [] capability = "summarize_text" -> validate_summary_result(result)
      [] OTHER -> TRUE

\* A report that bills the listed price whether or not the work is valid.
ReportFor_FullPrice(agent_name, selected, is_valid) ==
    [buyer_id |-> agent_name, seller_name |-> selected.name,
     amount |-> selected.price, success |-> is_valid]

\* The body posted to /report_transaction.
ReportFor(agent_name, selected, is_valid) ==
    [buyer_id |-> agent_name, seller_name |-> selected.name,
     amount |-> IF is_valid THEN selected.price ELSE 0, success |-> is_valid]

\* What a hire has come to when hire_specialist returns: the seller it
\* selected and asked, the answer, the reports it sent, and the dict it
\* returns (an error, or the invoice).
Hire(capability, seller, asked, response, reports, error, invoice) ==
    [capability |-> capability, seller |-> seller, asked |-> asked,
     response |-> response, reports |-> reports, error |-> error, invoice |-> invoice]

\* execute_task takes the result of a hire: the invoice is added to
\* total_cost unless the hire returned an error; the chart seller is hired
\* after the summarizer, and then the task returns.
Ended(q, h) ==
    [q EXCEPT !.hires = Append(@, h),
              !.total_cost = IF h.error THEN @ ELSE @ + h.invoice,
              !.candidates = <<>>,
              !.selected = NoAgent,
              !.response = NoResponse,
              !.capability = IF @ = "summarize_text" THEN "generate_charts" ELSE @,
              !.pc = IF q.capability = "summarize_text" THEN "search" ELSE "done"]

Hiring(t, pc) == inflight[t].op = "execute_task" /\ inflight[t].pc = pc

\* GET /search with the filters of the strategy
HireSearch(t) ==
    LET q == inflight[t]
        found == SearchResponse(agents, q.capability, StrictFilters(q.strategy))
    IN /\ Hiring(t, "search")
       /\ inflight' = [inflight EXCEPT ![t] =
              IF found # <<>> THEN [q EXCEPT !.candidates = found, !.pc = "select"]
              ELSE IF q.strategy \in {"cost_minimization", "quality_maximization"}
              THEN [q EXCEPT !.pc = "relaxed"]
              ELSE Ended(q, Hire(q.capability, None, FALSE, NoResponse, <<>>, TRUE, 0))]
       /\ UNCHANGED <<escrowVars, registryVars, ncalls>>

\* "Relaxing constraints...": GET /search with the capability alone
HireRelaxed(t) ==
    LET q == inflight[t]
        found == SearchResponse(agents, q.capability, <<Absent, Absent>>)
    IN /\ Hiring(t, "relaxed")
       /\ inflight' = [inflight EXCEPT ![t] =
              IF found # <<>> THEN [q EXCEPT !.candidates = found, !.pc = "select"]
              ELSE Ended(q, Hire(q.capability, None, FALSE, NoResponse, <<>>, TRUE, 0))]
       /\ UNCHANGED <<escrowVars, registryVars, ncalls>>

\* selected_agent = softmax_select_agent(agents, SELECTION_WEIGHTS, ...)
HireSelect(t) ==
    LET q == inflight[t] IN
    /\ Hiring(t, "select")
    /\ \E u \in Draws :
           LET r == softmax_select_agent(q.candidates, q.weights, q.temperature, u) IN
           /\ Len(r.drawn) = 0 => u = 0
           /\ inflight' = [inflight EXCEPT ![t] =
                  [q EXCEPT !.selected = r.selected, !.pc = "call"]]
    /\ UNCHANGED <<escrowVars, registryVars, ncalls>>

\* requests.post(agent_url, json={"task_data": task_data}): a status other
\* than 200, or no answer, ends the hire with an error.
HireCall(t) ==
    LET q == inflight[t] IN
    /\ Hiring(t, "call")
    /\ \E response \in SellerResponses :
           inflight' = [inflight EXCEPT ![t] =
               IF response.http = 200
               THEN [q EXCEPT !.response = response, !.pc = "validate"]
               ELSE Ended(q, Hire(q.capability, q.selected.name, TRUE, response, <<>>,
                                  TRUE, 0))]
    /\ UNCHANGED <<escrowVars, registryVars, ncalls>>

\* The result is validated and the transaction reported: a success at the
\* listed price, or a failure at 0.0; the registry journals the report and
\* updates the seller's row.
HireReport(t) ==
    LET q == inflight[t]
        is_valid == Validated(q.capability, q.response.result)
        report == ReportFor(q.agent_name, q.selected, is_valid)
        st == Reported(Journal(agents, transactions, feedback), report.buyer_id,
                       report.seller_name, report.amount, report.success)
    IN /\ Hiring(t, "validate")
       /\ IF ReportResult(agents, report.seller_name) = "ok"
          THEN agents' = st.agents /\ transactions' = st.transactions
          ELSE UNCHANGED <<agents, transactions>>
       /\ inflight' = [inflight EXCEPT ![t] =
              Ended(q, Hire(q.capability, q.selected.name, TRUE, q.response, <<report>>,
                            ~is_valid, IF is_valid THEN q.selected.price ELSE 0))]
       /\ UNCHANGED <<escrowVars, feedback, rcall, ncalls>>

\* POST /execute_task to a project manager of the given strategy.
TaskRequest(s) ==
    [op |-> "execute_task", pc |-> "search", agent_name |-> s.agent_name,
     strategy |-> s.strategy, weights |-> s.weights, temperature |-> s.temperature,
     capability |-> "summarize_text", candidates |-> <<>>, selected |-> NoAgent,
     response |-> NoResponse, hires |-> <<>>, total_cost |-> 0]

\* Registries a task runs against: the three sellers, with the summarizer
\* listed for either capability.
HireTables ==
    {SearchTable(bp, 5, c, bh, "new") :
        bp \in {3, 5}, c \in Capabilities, bh \in {"new", "mixed"}}

InitHire ==
    /\ escrows = [j \in {} |-> 0]
    /\ agent_wallets = [a \in SeededAgents |-> SeedBalance]
    /\ ledger = [j \in JobIds |->
           [debited |-> 0, lock |-> 0, paid |-> 0, refunded |-> 0, creates |-> 0]]
    /\ call = [op |-> "init", job |-> None, agent |-> None, amount |-> 0, result |-> "ok"]
    /\ ncalls = 0
    /\ \E st \in HireTables :
           /\ agents = st.agents
           /\ transactions = st.transactions
           /\ feedback = st.feedback
    /\ rcall = [op |-> "init", result |-> "ok"]
    /\ \E s \in Strategies :
           inflight = [t \in Slots |-> IF t = 1 THEN TaskRequest(s) ELSE NoRequest]

HireNext ==
    \E t \in Slots :
        \/ HireSearch(t)
        \/ HireRelaxed(t)
        \/ HireSelect(t)
        \/ HireCall(t)
        \/ HireReport(t)

SpecHire == InitHire /\ [][HireNext]_vars

----------------------------------------------------------------------------
(* Properties of the orchestrating buyer *)

\* The escrows a buyer holds in one of the given states.
EscrowsOf(buyer_id, statuses) ==
    {j \in DOMAIN escrows :
        escrows[j].buyer = buyer_id /\ escrows[j].status \in statuses}

\* C35: a seller is asked to work only while the buyer holds a locked
\* escrow, created after the selection; a transaction is reported only after
\* an escrow of the buyer has been released or refunded.
C35_EscrowBeforeWork ==
    \A t \in Slots :
        inflight[t].op = "execute_task"
        => LET q == inflight[t] IN
           /\ q.pc \in {"search", "relaxed", "select"}
                 => EscrowsOf(q.agent_name, {"locked"}) = {}
           /\ q.pc = "validate" => EscrowsOf(q.agent_name, {"locked"}) # {}
           /\ \A i \in DOMAIN q.hires :
                  q.hires[i].reports # <<>>
                  => EscrowsOf(q.agent_name,
                               {"completed", "refunded", "rejected_overcharge"}) # {}

\* The hires of a task that have returned.
HiresOf(t) == inflight[t].hires

----------------------------------------------------------------------------
(* Sellers: execute_task of the two chart sellers and the summarizer       *)
(*                                                                         *)
(* A seller answers a job offer.  Whether its work succeeds depends on the *)
(* payload, on matplotlib or on the language model it calls: the outcome   *)
(* of the work is an input.                                                *)

\* AGENT_NAME and PRICE_PER_TASK (in hundredths) of the three sellers.
Sellers ==
    {[name |-> "ChartBot_Budget_v1", price |-> 3],
     [name |-> "ChartBot_Pro_v1", price |-> 5],
     [name |-> "TextSummarize_v1", price |-> SummarizerPrice]}

\* constraints.max_price of an offer, in hundredths
OfferPrices == {0, 1, 2, 3, 4, 5, 6, 7}

\* The body of a request: a JobOffer whose task_payload has a dict under
\* "data" ("nested") or no "data" at all ("flat"), or the body the project
\* manager posts, {"task_data": ...}, which is no JobOffer.
JobOffer(max_price, payload) == [valid |-> TRUE, max_price |-> max_price, payload |-> payload]

TaskDataBody == [valid |-> FALSE, max_price |-> 0, payload |-> "flat"]

Offers == {JobOffer(m, p) : m \in OfferPrices, p \in {"nested", "flat"}} \cup {TaskDataBody}

\* How the work ends once it is begun: a result, an unsupported chart type,
\* an exception.
WorkOutcomes == {"done", "unsupported", "raises"}

Answer(http, status, invoice, worked) ==
    [http |-> http, status |-> status, invoice |-> invoice, worked |-> worked]

\* A seller that takes every offer.
Rejects_Never(seller, offer) == FALSE

\* if offer.constraints.max_price < PRICE_PER_TASK
Rejects(seller, offer) == offer.max_price < seller.price

\* chartbot_budget_agent.execute_task: the HTTPException of an unsupported
\* chart type is raised inside the try block and handled like any failure.
budget_execute_task(seller, offer, work) ==
    IF Rejects(seller, offer) THEN Answer(200, "rejected", Given(0), FALSE)
    ELSE IF work = "done" THEN Answer(200, "done", Given(seller.price), TRUE)
    ELSE IF work = "unsupported" THEN Answer(200, "error", Given(0), FALSE)
    ELSE Answer(200, "error", Given(0), TRUE)

\* chartbot_pro_agent.execute_task: chart_type is assigned only when the
\* payload has a dict under "data"; without it the handler fails before the
\* work and the server answers 500.
pro_execute_task(seller, offer, work) ==
    IF Rejects(seller, offer) THEN Answer(200, "rejected", Absent, FALSE)
    ELSE IF offer.payload # "nested" THEN Answer(500, "none", Absent, FALSE)
    ELSE IF work = "done" THEN Answer(200, "done", Given(seller.price), TRUE)
    ELSE IF work = "unsupported" THEN Answer(200, "failed", Given(0), FALSE)
    ELSE Answer(200, "error", Given(0), TRUE)

\* summarizer_agent.execute_task
summarizer_execute_task(seller, offer, work) ==
    IF Rejects(seller, offer) THEN Answer(200, "rejected", Absent, FALSE)
    ELSE IF work = "done" THEN Answer(200, "done", Given(seller.price), TRUE)
    ELSE Answer(200, "failed", Given(0), TRUE)

\* POST /execute_task: a body that is no JobOffer is answered 422 before
\* the handler runs.
execute_task(seller, offer, work) ==
    IF ~offer.valid THEN Answer(422, "none", Absent, FALSE)
    ELSE CASE seller.name = "ChartBot_Budget_v1" -> budget_execute_task(seller, offer, work)
           [] seller.name = "ChartBot_Pro_v1" -> pro_execute_task(seller, offer, work)
           [] OTHER -> summarizer_execute_task(seller, offer, work)

\* An offer on its way to a seller.
OfferRequest(seller, offer) ==
    [op |-> "offer", pc |-> "start", seller |-> seller, offer |-> offer,
     answer |-> Answer(0, "none", Absent, FALSE)]

\* The seller in slot t answers its offer.
AnswerOffer(t) ==
    LET q == inflight[t] IN
    /\ q.op = "offer"
    /\ q.pc = "start"
    /\ \E work \in WorkOutcomes :
           inflight' = [inflight EXCEPT ![t] =
               [q EXCEPT !.pc = "done",
                         !.answer = execute_task(q.seller, q.offer, work)]]
    /\ UNCHANGED <<escrowVars, registryVars, ncalls>>

InitOffers ==
    /\ escrows = [j \in {} |-> 0]
    /\ agent_wallets = [a \in SeededAgents |-> SeedBalance]
    /\ ledger = [j \in JobIds |->
           [debited |-> 0, lock |-> 0, paid |-> 0, refunded |-> 0, creates |-> 0]]
    /\ call = [op |-> "init", job |-> None, agent |-> None, amount |-> 0, result |-> "ok"]
    /\ ncalls = 0
    /\ agents = [a \in {} |-> 0]
    /\ transactions = <<>>
    /\ feedback = <<>>
    /\ rcall = [op |-> "init", result |-> "ok"]
    /\ \E s \in Sellers, o \in Offers :
           inflight = [t \in Slots |-> IF t = 1 THEN OfferRequest(s, o) ELSE NoRequest]

OffersNext == \E t \in Slots : AnswerOffer(t)

SpecOffers == InitOffers /\ [][OffersNext]_vars

\* C36: a seller that gets an offer with max_price below its price answers
\* `rejected`, does no work and charges nothing; every invoice a seller
\* issues is 0 or exactly its price, and no invoice is above the max_price
\* of the offer.
C36_SellerInvoice ==
    \A t \in Slots :
        (inflight[t].op = "offer" /\ inflight[t].pc = "done" /\ inflight[t].offer.valid)
        => LET q == inflight[t]
               a == q.answer
           IN /\ q.offer.max_price < q.seller.price
                    => /\ a.http = 200
                       /\ a.status = "rejected"
                       /\ ~a.worked
                       /\ a.invoice.given => a.invoice.value = 0
              /\ a.invoice.given
                    => /\ a.invoice.value \in {0, q.seller.price}
                       /\ a.invoice.value <= q.offer.max_price
              /\ a.status = "done"
                    => a.invoice = Given(q.seller.price) /\ q.seller.price <= q.offer.max_price

\* The offer of the test: 0.01 for a chart of ChartBot_Budget_v1, which
\* asks 0.03 and rejects with an invoice of 0.
C36_Witness ==
    \E t \in Slots :
        /\ inflight[t].op = "offer"
        /\ inflight[t].pc = "done"
        /\ inflight[t].seller.name = "ChartBot_Budget_v1"
        /\ inflight[t].offer = JobOffer(1, "nested")
        /\ inflight[t].answer = Answer(200, "rejected", Given(0), FALSE)

----------------------------------------------------------------------------
(* Further properties of the Reputation Ledger, the Escrow Ledger and the  *)
(* Directory                                                               *)

\* The rows of a journal that name an agent.
Naming(journal, field, name) == {i \in DOMAIN journal : journal[i][field] = name}

\* C37: an agent's total_jobs is the number of transactions that name it as
\* seller plus the number of feedback records that name it, several ratings
\* of one transaction included.
C37_TotalJobs ==
    \A n \in DOMAIN agents :
        agents[n].total_jobs
            = Cardinality(Naming(transactions, "seller_name", n))
              + Cardinality(Naming(feedback, "agent_name", n))

\* One transaction, rated twice: total_jobs is 3.
C37_Witness ==
    \E n \in DOMAIN agents :
        /\ Cardinality(Naming(transactions, "seller_name", n)) = 1
        /\ Cardinality(Naming(feedback, "agent_name", n)) = 2
        /\ \A i \in Naming(feedback, "agent_name", n) : feedback[i].transaction_id = 1
        /\ agents[n].total_jobs = 3


\* C39: create_escrow never creates money: for every buyer id, with a wallet
\* or without, and every max_price, the call either fails and leaves wallets
\* and records as they were, or lowers the buyer's balance by an amount that
\* is not negative; no balance rises and the record stored has no negative
\* locked amount.
C39_NoMoneyCreated ==
    [][ IsCall("create_escrow")
        => \/ /\ call'.result # "ok"
              /\ UNCHANGED <<agent_wallets, escrows>>
           \/ /\ call'.result = "ok"
              /\ DOMAIN agent_wallets' = DOMAIN agent_wallets
              /\ \A a \in DOMAIN agent_wallets : agent_wallets'[a] <= agent_wallets[a]
              /\ escrows'[call'.job].locked_amount >= 0 ]_vars


\* The latest request was a search whose limit and weights the endpoint
\* admits.
SearchAdmitted ==
    /\ rcall.op = "search"
    /\ rcall.limit \in 1..20
    /\ WeightTotal(rcall.weights) > 0

====
